---- MODULE Spec2Model ----
(***************************************************************************)
(* Document generation pipeline (LangGraph workflow) of the repository:    *)
(*   - the workflow of document_workflow.py and its nine nodes  (Spec)     *)
(*   - the markdown section model and the partial update of                *)
(*     document_generator_node.py                               (SpecDoc)  *)
(*   - invoke_with_retry of utils/llm_backoff.py                (SpecRetry)*)
(*   - the worker pool of file_summarizer_node.py               (SpecPool) *)
(*   - the per-file fan-out of change_analyzer_node.py          (SpecChg)  *)
(*   - the archive download of repository_analyzer_node.py      (SpecFetch)*)
(*   - two workflow runs sharing the documents table            (SpecConc) *)
(* Texts are sequences of one-character strings, so that parsing, stripping*)
(* and truncation are computed character by character as the code does.    *)
(***************************************************************************)
EXTENDS Integers, Sequences, FiniteSets, TLC

VARIABLES
    \* ---- workflow (document_workflow.py) ----
    pc,          \* node about to run, "idle" between runs, "raised" when an exception left invoke()
    state,       \* the DocumentState threaded through the nodes
    documents,   \* the documents table: sequence of rows, id = index
    trace,       \* nodes executed by the current run, in order
    result,      \* what process() returned for the last run
    use_mock,    \* DocumentWorkflow.use_mock
    runs,        \* number of process() calls so far
    errored,     \* some node of the current run has set status = "error"
    writes,      \* committed writes to the documents table by the current run
    effects,     \* external calls made by the current run: "completion", "fetch"
    temp_dirs,   \* repo_analysis_* directories made by mkdtemp and still on disk
    \* ---- markdown section model / partial update ----
    content,     \* existing_document["content"]
    target_sections, \* state["target_doc_sections"]
    generated,   \* text the completion client returns per section key
    max_chars,   \* PARTIAL_DOC_UPDATE_MAX_SECTION_CHARS
    doc_mock,    \* use_mock of the partial update
    doc_out,     \* output of the last operation on the document
    doc_op,      \* last operation applied: "none", "merge", "partial", "error"
    updated,     \* the updates mapping of the last operation
    failed,      \* target sections whose completion call raises, retries used up
    \* ---- invoke_with_retry ----
    rpc,         \* "call" | "sleep" | "returned" | "raised"
    max_retries, \* LLM_MAX_RETRIES
    extra,       \* os.getenv("LLM_RETRYABLE_ERROR_SUBSTRINGS", "")
    attempt,     \* local variable attempt
    calls,       \* number of llm.invoke calls made
    sleeps,      \* number of time.sleep calls made
    last_delay,  \* argument of the last time.sleep, in tenths of a second
    last_error,  \* str(e) of the exception of the last failed call
    \* ---- file_summarizer_node pool ----
    parsed_files,   \* state["parsed_files"]: the file_path of each parsed record
    summary_limit,  \* FileSummarizerConfig.SUMMARY_LIMIT as configured (FILE_SUMMARY_LIMIT)
    pool_workers,   \* FILE_SUMMARIZER_MAX_CONCURRENCY
    pool_mock,      \* use_mock of the node
    llm_fails,      \* file paths for which llm.invoke (or the parsing of its answer) fails
    llm_transient,  \* file paths whose first llm.invoke raises a rate-limit error, the next would not
    fpc,            \* "start" | "pool" | "done" | "error"
    pending,        \* submitted futures not yet started, in submission order
    running,        \* futures being executed by a pool thread
    finished,       \* results of the futures done and not yet yielded by as_completed
    file_summaries, \* the local list file_summaries, then state["file_summaries"]
    \* ---- _generate_file_summaries (change_analyzer_node.py) ----
    changed_files,  \* the argument changed_files: pairwise distinct paths
    chg_mode,       \* "mock" (use_mock) | "no_llm" (llm is None) | "llm"
    chg_fails,      \* files for which invoke_with_retry raises
    chg_nodiff,     \* files for which _find_diff_for_file finds no diff
    chg_workers,    \* FILE_SUMMARY_MAX_CONCURRENCY
    cpc,            \* "start" | "pool" | "done"
    chg_pending,    \* submitted futures not yet started, in submission order
    chg_running,    \* futures being executed by a pool thread
    chg_finished,   \* results of the futures done and not yet yielded by as_completed
    summaries,      \* the local list summaries
    chg_out,        \* the list the function returned
    \* ---- _download_repository_zip_sync (repository_analyzer_node.py) ----
    repo_meta,      \* answer of the repository metadata request
    dpc,            \* "start" | "loop" | "done"
    branches_to_try,\* the local list branches_to_try
    attempts,       \* archive requests made so far: branch and what came back
    repo_path,      \* the value returned: "None" or the extracted root
    temp_dir,       \* the directory made by mkdtemp exists
    \* ---- two runs of the workflow on one documents table ----
    cruns,          \* per run: its position, its changeset, what it loaded and its outcome
    store,          \* the documents table shared by the two runs
    \* ---- _merge_changelog / _merge_section_changes applied to a section body ----
    patch_key,      \* section_key of _update_section_llm
    patch_old,      \* the body the last patch was merged into
    patch_blocks,   \* the blocks the last patch was written from (<<>>: not a block patch)
    patch_text,     \* the last patch: generated, the stripped completion text
    patch_new,      \* the body the merge returned
    patch_count,    \* patches merged so far
    \* ---- the pools of _handle_partial_update and full_repository_document_generator_node ----
    ex_point,       \* "sections" (partial update) | "parts" (full document)
    ex_items,       \* target_sections, or the keys of tasks
    ex_cap,         \* PARTIAL_UPDATE_MAX_CONCURRENCY, or FULL_DOC_MAX_CONCURRENCY
    ex_mock,        \* use_mock of _handle_partial_update
    ex_fails,       \* positions of the items whose worker function raises
    ex_pc,          \* "start" | "pool" | "loop" | "done" | "raised"
    ex_pending,     \* submitted futures not yet started (positions), in submission order
    ex_running,     \* futures being executed by a pool thread
    ex_finished,    \* futures done and not yet yielded by as_completed
    ex_results,     \* positions whose result the calling thread has taken
    ex_order,       \* those positions in the order the calling thread took them
    ex_content,     \* state["document_content"] written by _handle_partial_update
    \* ---- writes to the DocumentState dict made by the nodes that fan out ----
    state_writes,   \* who wrote which key, and how many workers were in progress
    \* ---- file_parser_node ----
    code_files,     \* state["code_files"]: path and what reading and parsing the file does
    parser_mock,    \* use_mock of the node
    ppc,            \* "start" | "loop" | "done"
    parsed_records, \* the local list parsed_files
    parser_state,   \* the keys of state the node writes: status, error, parsed_files
    \* ---- diff_content: data_loader_node, _parse_diff_to_map, _find_diff_for_file ----
    file_changes,   \* the FileChange rows of the changeset: filename and patch
    diff_content,   \* state["diff_content"]
    diff_map,       \* the dict of _parse_diff_to_map: key and block, in insertion order
    lookup_file,    \* the argument filename of the last _find_diff_for_file call
    file_diff,      \* what that call returned
    mpc,            \* "start" | "loaded" | "parsed" | "found"
    \* ---- get_document_service (document_service.py) ----
    service_instance, \* the module global _service_instance: <<>> for None, or <<the instance>>
    service_calls     \* the calls made so far: arguments and the instance returned

wfVars    == <<pc, state, documents, trace, result, use_mock, runs, errored, writes, effects,
               temp_dirs>>
docVars   == <<content, target_sections, generated, max_chars, doc_mock, doc_out, doc_op, updated,
               failed>>
retryVars == <<rpc, max_retries, extra, attempt, calls, sleeps, last_delay, last_error>>
poolVars  == <<parsed_files, summary_limit, pool_workers, pool_mock, llm_fails, llm_transient, fpc,
               pending, running, finished, file_summaries>>
chgVars   == <<changed_files, chg_mode, chg_fails, chg_nodiff, chg_workers, cpc, chg_pending,
               chg_running, chg_finished, summaries, chg_out>>
fetchVars == <<repo_meta, dpc, branches_to_try, attempts, repo_path, temp_dir>>
concVars  == <<cruns, store>>
patchVars == <<patch_key, patch_old, patch_blocks, patch_text, patch_new, patch_count>>
execVars  == <<ex_point, ex_items, ex_cap, ex_mock, ex_fails, ex_pc, ex_pending, ex_running,
               ex_finished, ex_results, ex_order, ex_content>>
parseVars == <<code_files, parser_mock, ppc, parsed_records, parser_state>>
\* the variables of the specifications that follow the fan-out points
diffVars  == <<file_changes, diff_content, diff_map, lookup_file, file_diff, mpc>>
svcVars   == <<service_instance, service_calls>>
auxVars   == <<parseVars, diffVars, svcVars>>
vars      == <<wfVars, docVars, retryVars, poolVars, chgVars, fetchVars, concVars, patchVars,
               execVars, state_writes, auxVars>>

\* ======================================================================
\* Texts: Python str operations on sequences of one-character strings
\* ======================================================================

UpperCase == <<"A","B","C","D","E","F","G","H","I","J","K","L","M",
               "N","O","P","Q","R","S","T","U","V","W","X","Y","Z">>
LowerCase == <<"a","b","c","d","e","f","g","h","i","j","k","l","m",
               "n","o","p","q","r","s","t","u","v","w","x","y","z">>

\* str.lower() on one character
LowerChar(c) ==
    IF \E i \in DOMAIN UpperCase : UpperCase[i] = c
    THEN LowerCase[CHOOSE i \in DOMAIN UpperCase : UpperCase[i] = c]
    ELSE c

\* str.lower()
Lower(t) == [i \in DOMAIN t |-> LowerChar(t[i])]

\* whitespace as str.strip() and the regex class \s see it
IsSpace(c) == c \in {" ", "\n", "\t", "\r"}

\* t[a:b] with 0-based Python bounds already clipped to 0..len
Slice(t, a, b) == IF b <= a THEN <<>> ELSE SubSeq(t, a + 1, b)

\* str.lstrip(), str.rstrip(), str.strip()
LStrip(t) ==
    LET lead == {i \in 1..Len(t) : \A j \in 1..i : IsSpace(t[j])}
        n == Cardinality(lead)
    IN SubSeq(t, n + 1, Len(t))

RStrip(t) ==
    LET keep == {i \in 1..Len(t) : ~IsSpace(t[i])}
    IN IF keep = {} THEN <<>>
       ELSE SubSeq(t, 1, CHOOSE i \in keep : \A j \in keep : j <= i)

Strip(t) == LStrip(RStrip(t))

\* t.startswith(key, at) with a 1-based position
StartsAt(t, key, at) ==
    /\ at + Len(key) - 1 <= Len(t)
    /\ \A k \in 1..Len(key) : t[at + k - 1] = key[k]

\* key in t
Contains(t, key) == \E at \in 1..(Len(t) + 1) : StartsAt(t, key, at)

\* t.split(sep) for a one-character separator
RECURSIVE SplitOn(_, _)
SplitOn(t, sep) ==
    LET cuts == {i \in 1..Len(t) : t[i] = sep}
    IN IF cuts = {} THEN <<t>>
       ELSE LET c == CHOOSE i \in cuts : \A j \in cuts : i <= j
            IN <<SubSeq(t, 1, c - 1)>> \o SplitOn(SubSeq(t, c + 1, Len(t)), sep)

\* "".join / sep.join of a sequence of texts
RECURSIVE Join(_, _)
Join(parts, sep) ==
    IF parts = <<>> THEN <<>>
    ELSE IF Len(parts) = 1 THEN parts[1]
    ELSE parts[1] \o sep \o Join(Tail(parts), sep)

\* the elements of a list
Range(s) == {s[i] : i \in DOMAIN s}

\* ======================================================================
\* Workflow: document_workflow.py and nodes/*.py
\* ======================================================================

MaxRuns == 2

\* FileSummarizerConfig.SUMMARY_LIMIT (FILE_SUMMARY_LIMIT, default 30)
SUMMARY_LIMIT == 30

\* The code_changes table: id -> commit and repository full_name ("None": no repository row).
CodeChanges ==
    (1 :> [commit_sha |-> "sha1", repository |-> "owner/repo"]) @@
    (2 :> [commit_sha |-> "sha2", repository |-> "owner/repo"]) @@
    (3 :> [commit_sha |-> "sha3", repository |-> "None"])

\* Ids process() is called with: 0 is falsy, 4 names no row.
CodeChangeIds == 0..4

\* "no document": the value standing for None / a missing key of existing_document.
NoDoc == [id |-> 0, title |-> "", content |-> "", summary |-> ""]

\* A row of the documents table (models.Document).
DocumentRow(title, body, summary, sha, repo, ccid, upd) ==
    [title |-> title, content |-> body, summary |-> summary, status |-> "generated",
     document_type |-> "auto", commit_sha |-> sha, repository_name |-> repo,
     code_change_id |-> ccid, updated_at |-> upd]

\* f"{repo_name} - Project Documentation"
ProjectTitle(repo_name) ==
    CASE repo_name = "owner/repo" -> "owner/repo - Project Documentation"
      [] repo_name = "unknown"    -> "unknown - Project Documentation"
      [] OTHER                    -> "Unknown Project - Project Documentation"

\* process(): the initial_state dict; keys not given are absent (None, 0 or "").
InitialState(code_change_id) ==
    [code_change_id |-> code_change_id, status |-> "loading", should_update |-> FALSE,
     code_change |-> "None", repository_name |-> "None", existing_document |-> NoDoc,
     target_doc_sections |-> "None", analysis_result |-> "None",
     needs_full_analysis |-> "None", document_title |-> "None",
     document_content |-> "None", document_summary |-> "None",
     repository_path |-> "None", code_files |-> 0, parsed_files |-> 0,
     file_summaries |-> 0, document_id |-> 0, action |-> "None", error |-> "None"]

\* The content fields of the state.
ContentFields(s) ==
    <<s.document_title, s.document_content, s.document_summary, s.analysis_result,
      s.target_doc_sections, s.should_update>>

\* set_error and the "state[error] = ...; state[status] = error" pairs of the nodes.
set_error_message_only(s, message) == [s EXCEPT !.error = message]
set_error(s, message) == [s EXCEPT !.error = message, !.status = "error"]

\* route_after_decider
route_after_decider_swapped(s) ==
    IF s.should_update THEN "repository_analyzer" ELSE "change_analyzer"
route_after_decider(s) ==
    IF s.should_update THEN "change_analyzer" ELSE "repository_analyzer"

\* The edges added in _build_workflow.
NextNode_saver_twice(node, s) ==
    CASE node = "data_loader"          -> "document_decider"
      [] node = "document_decider"     -> route_after_decider(s)
      [] node = "change_analyzer"      -> "document_generator"
      [] node = "repository_analyzer"  -> "file_parser"
      [] node = "file_parser"          -> "file_summarizer"
      [] node = "file_summarizer"      -> "full_repository_document_generator"
      [] node = "document_generator"   -> "document_saver"
      [] node = "full_repository_document_generator" -> "document_saver"
      [] node = "document_saver"       -> IF writes = 0 THEN "document_saver" ELSE "END"
NextNode(node, s) ==
    CASE node = "data_loader"          -> "document_decider"
      [] node = "document_decider"     -> route_after_decider(s)
      [] node = "change_analyzer"      -> "document_generator"
      [] node = "repository_analyzer"  -> "file_parser"
      [] node = "file_parser"          -> "file_summarizer"
      [] node = "file_summarizer"      -> "full_repository_document_generator"
      [] node = "document_generator"   -> "document_saver"
      [] node = "full_repository_document_generator" -> "document_saver"
      [] node = "document_saver"       -> "END"

\* One node of the compiled graph has run and returned state s.
Step(node, s) ==
    /\ state' = s
    /\ trace' = Append(trace, node)
    /\ errored' = (errored \/ s.status = "error")
    /\ pc' = NextNode(node, s)

\* An exception left the node: workflow.invoke raises.
Raise(node) ==
    /\ trace' = Append(trace, node)
    /\ pc' = "raised"
    /\ UNCHANGED <<state, errored>>

\* ids of the rows the data loader's query can return first: rows of the repository
\* with an eligible status, latest updated_at first (ties in any order).
LatestDocuments_without_generated(repo) ==
    LET eligible == {i \in DOMAIN documents :
                        /\ documents[i].repository_name = repo
                        /\ documents[i].status \in {"edited", "reviewed"}}
    IN {i \in eligible : \A j \in eligible : documents[j].updated_at <= documents[i].updated_at}
LatestDocuments(repo) ==
    LET eligible == {i \in DOMAIN documents :
                        /\ documents[i].repository_name = repo
                        /\ documents[i].status \in {"generated", "edited", "reviewed"}}
    IN {i \in eligible : \A j \in eligible : documents[j].updated_at <= documents[i].updated_at}

\* datetime.utcnow() of the saver, as a logical clock later than every row.
Now ==
    LET RECURSIVE maxUpd(_)
        maxUpd(i) == IF i = 0 THEN 0
                     ELSE LET m == maxUpd(i - 1)
                          IN IF documents[i].updated_at > m THEN documents[i].updated_at ELSE m
    IN maxUpd(Len(documents)) + 1

\* process_code_change(code_change_id) up to workflow.invoke: DocumentWorkflow is
\* built (without use_mock it needs the API key and builds the ChatOpenAI client,
\* either of which can raise) and process() hands the initial state to the graph.
process ==
    /\ pc = "idle"
    /\ runs < MaxRuns
    /\ \E id \in CodeChangeIds, init_raises \in BOOLEAN :
        /\ state' = InitialState(id)
        /\ pc' = IF init_raises /\ ~use_mock THEN "raised" ELSE "data_loader"
    /\ trace' = <<>>
    /\ errored' = FALSE
    /\ writes' = 0
    /\ effects' = {}
    /\ runs' = runs + 1
    /\ UNCHANGED <<documents, result, use_mock, temp_dirs>>
    /\ UNCHANGED <<docVars, retryVars, poolVars, chgVars, fetchVars, concVars>>
    /\ UNCHANGED <<patchVars, execVars, state_writes>>
    /\ UNCHANGED auxVars

data_loader_node ==
    /\ pc = "data_loader"
    /\ \E query_raises \in BOOLEAN :
        LET id == state.code_change_id IN
        IF id = 0 THEN Step("data_loader", set_error(state, "code_change_id is required"))
        ELSE IF query_raises THEN Step("data_loader", set_error(state, "Data loader failed"))
        ELSE IF id \notin DOMAIN CodeChanges
        THEN Step("data_loader", set_error(state, "CodeChange not found"))
        ELSE LET cc == CodeChanges[id]
                 repository_name == IF cc.repository = "None" THEN "unknown" ELSE cc.repository
                 found == LatestDocuments(repository_name)
             IN \E d \in (IF found = {} THEN {0} ELSE found) :
                  Step("data_loader",
                       [state EXCEPT !.code_change = cc.commit_sha,
                                     !.repository_name = repository_name,
                                     !.existing_document =
                                         IF d = 0 THEN NoDoc
                                         ELSE [id |-> d, title |-> documents[d].title,
                                               content |-> documents[d].content,
                                               summary |-> documents[d].summary],
                                     !.status = "analyzing"])
    /\ UNCHANGED <<documents, result, use_mock, runs, writes, effects, temp_dirs>>
    /\ UNCHANGED <<docVars, retryVars, poolVars, chgVars, fetchVars, concVars>>
    /\ UNCHANGED <<patchVars, execVars, state_writes>>
    /\ UNCHANGED auxVars

document_decider_node ==
    /\ pc = "document_decider"
    /\ LET existing_doc == state.existing_document
           repo_name == IF state.repository_name = "None" THEN "unknown" ELSE state.repository_name
       IN IF existing_doc # NoDoc
          THEN Step("document_decider",
                    [state EXCEPT !.should_update = TRUE,
                                  !.document_title = existing_doc.title,
                                  !.needs_full_analysis = "False"])
          ELSE Step("document_decider",
                    [state EXCEPT !.should_update = FALSE,
                                  !.needs_full_analysis = "True",
                                  !.document_title = ProjectTitle(repo_name)])
    /\ UNCHANGED <<documents, result, use_mock, runs, writes, effects, temp_dirs>>
    /\ UNCHANGED <<docVars, retryVars, poolVars, chgVars, fetchVars, concVars>>
    /\ UNCHANGED <<patchVars, execVars, state_writes>>
    /\ UNCHANGED auxVars

\* Outcomes of the aggregate completion call of change_analyzer_node and of the
\* parsing of its answer.
AnalysisOutcomes ==
    {"llm_error", "json_not_dict", "json_targets", "json_no_targets",
     "json_without_targets", "text_targets", "text_no_targets"}

change_analyzer_node ==
    /\ pc = "change_analyzer"
    /\ IF use_mock
       THEN Step("change_analyzer",
                 [state EXCEPT !.analysis_result = "mock analysis",
                               !.target_doc_sections = "some",
                               !.status = "generating"])
       ELSE \E o \in AnalysisOutcomes :
              IF o \in {"llm_error", "json_not_dict"}
              THEN Step("change_analyzer", set_error(state, "Change analyzer failed"))
              ELSE Step("change_analyzer",
                        [state EXCEPT !.analysis_result = "analysis",
                                      !.target_doc_sections =
                                          CASE o \in {"json_targets", "text_targets"} -> "some"
                                            [] o \in {"json_no_targets", "text_no_targets"} -> "empty"
                                            [] OTHER -> @,
                                      !.status = "generating"])
    /\ effects' = IF use_mock THEN effects ELSE effects \cup {"completion"}
    /\ UNCHANGED <<documents, result, use_mock, runs, writes, temp_dirs>>
    /\ UNCHANGED <<docVars, retryVars, poolVars, chgVars, fetchVars, concVars>>
    /\ UNCHANGED <<patchVars, execVars, state_writes>>
    /\ UNCHANGED auxVars

\* Abstract outcome of one completion call made through invoke_with_retry
\* (after its retries): it raises, or returns a text that is empty or not.
CompletionOutcomes == {"raises", "text", "empty"}

\* Texts a completion outcome stands for in a state field.
CompletionText(o, text) == IF o = "empty" THEN "" ELSE text

\* _handle_partial_update, seen from the workflow: the per-section work is the
\* partial update modelled below (HandlePartialUpdate); here only its outcome.
\* A completion error of one section leaves _process_section and the function.
handle_partial_update_node(s, section_raises) ==
    IF s.existing_document.content = ""
    THEN [raised |-> FALSE,
          state |-> set_error(s, "No existing document content for partial update")]
    ELSE IF section_raises
    THEN [raised |-> TRUE, state |-> s]
    ELSE [raised |-> FALSE,
          state |-> [s EXCEPT !.document_content = "partially updated document",
                              !.document_summary = "Incremental update applied to sections",
                              !.status = "saving"]]

document_generator_node ==
    /\ pc = "document_generator"
    /\ IF use_mock
       THEN Step("document_generator",
                 [state EXCEPT !.document_content = "mock change document",
                               !.document_summary = "mock change summary",
                               !.status = "saving"])
       ELSE IF state.should_update
       THEN IF state.target_doc_sections = "some"
            THEN \E section_raises \in BOOLEAN :
                   LET r == handle_partial_update_node(state, section_raises)
                   IN IF r.raised
                      THEN Step("document_generator", set_error(state, "Document generator failed"))
                      ELSE Step("document_generator", r.state)
            ELSE \E o1 \in CompletionOutcomes, o2 \in CompletionOutcomes :
                   IF o1 = "raises"
                   THEN Step("document_generator", set_error(state, "Document generator failed"))
                   ELSE LET s1 == [state EXCEPT !.document_content =
                                                    CompletionText(o1, "updated document")]
                        IN IF o2 = "raises"
                           THEN Step("document_generator", set_error(s1, "Document generator failed"))
                           ELSE Step("document_generator",
                                     [s1 EXCEPT !.document_summary =
                                                    CompletionText(o2, "updated summary"),
                                                !.status = "saving"])
       ELSE Step("document_generator",
                 [state EXCEPT !.status = "skip", !.error = "handled by full generator"])
    /\ effects' = IF /\ ~use_mock /\ state.should_update
                     /\ ~(state.target_doc_sections = "some"
                            /\ state.existing_document.content = "")
                  THEN effects \cup {"completion"} ELSE effects
    /\ UNCHANGED <<documents, result, use_mock, runs, writes, temp_dirs>>
    /\ UNCHANGED <<docVars, retryVars, poolVars, chgVars, fetchVars, concVars>>
    /\ UNCHANGED <<patchVars, execVars, state_writes>>
    /\ UNCHANGED auxVars

\* Outcomes of _download_repository_zip_sync and _analyze_repository_structure_sync:
\* no path (mkdtemp failed, or the download failed after it), an exception of the
\* structure analysis, or a list of n code files. The directory made by mkdtemp is
\* removed by no statement of the node or of the workflow.
MockFileCount == 7

repository_analyzer_node ==
    /\ pc = "repository_analyzer"
    /\ IF state.repository_name = "None"
       THEN /\ Step("repository_analyzer", set_error(state, "Repository name is required"))
            /\ UNCHANGED <<effects, temp_dirs>>
       ELSE IF use_mock
       THEN /\ Step("repository_analyzer",
                    [state EXCEPT !.repository_path = "/mock/repository/path",
                                  !.code_files = MockFileCount,
                                  !.status = "analyzing_files"])
            /\ UNCHANGED <<effects, temp_dirs>>
       ELSE \E o \in {"no_temp_dir", "no_path", "raises", "files"}, n \in {0, 2} :
              /\ CASE o \in {"no_temp_dir", "no_path"} ->
                          Step("repository_analyzer",
                               set_error(state, "Failed to download repository"))
                   [] o = "raises" ->
                          Step("repository_analyzer",
                               set_error(state, "Repository analyzer failed"))
                   [] OTHER ->
                          IF state.repository_name = "unknown"
                          THEN Step("repository_analyzer",
                                    set_error(state, "Failed to download repository"))
                          ELSE Step("repository_analyzer",
                                    [state EXCEPT !.repository_path =
                                                      "/tmp/repo_analysis_x/extracted/root",
                                                  !.code_files = n,
                                                  !.status = "analyzing_files"])
              /\ temp_dirs' = IF o = "no_temp_dir" THEN temp_dirs ELSE temp_dirs + 1
              /\ effects' = effects \cup {"fetch"}
    /\ UNCHANGED <<documents, result, use_mock, runs, writes>>
    /\ UNCHANGED <<docVars, retryVars, poolVars, chgVars, fetchVars, concVars>>
    /\ UNCHANGED <<patchVars, execVars, state_writes>>
    /\ UNCHANGED auxVars

file_parser_node ==
    /\ pc = "file_parser"
    /\ IF state.code_files = 0
       THEN Step("file_parser", set_error(state, "No code files to parse"))
       ELSE Step("file_parser",
                 [state EXCEPT !.parsed_files = state.code_files,
                               !.status = "summarizing_files"])
    /\ UNCHANGED <<documents, result, use_mock, runs, writes, effects, temp_dirs>>
    /\ UNCHANGED <<docVars, retryVars, poolVars, chgVars, fetchVars, concVars>>
    /\ UNCHANGED <<patchVars, execVars, state_writes>>
    /\ UNCHANGED auxVars

\* FileSummarizerConfig.limit_files with the default limit, on the number of files
limit_files_count(n) == IF n > SUMMARY_LIMIT /\ SUMMARY_LIMIT > 0 THEN SUMMARY_LIMIT ELSE n

\* file_summarizer_node has no try/except: a failure outside the summarizer
\* strategy (building the ChatOpenAI client, reading the configuration) leaves it.
file_summarizer_node ==
    /\ pc = "file_summarizer"
    /\ \E setup_raises \in BOOLEAN :
         IF state.parsed_files = 0
         THEN /\ Step("file_summarizer", set_error(state, "No parsed_files to summarize"))
         ELSE IF setup_raises /\ ~use_mock
         THEN Raise("file_summarizer")
         ELSE Step("file_summarizer",
                   [state EXCEPT !.file_summaries = limit_files_count(state.parsed_files),
                                 !.status = "generating_document"])
    /\ effects' = IF state.parsed_files # 0 /\ ~use_mock /\ pc' # "raised"
                  THEN effects \cup {"completion"} ELSE effects
    /\ UNCHANGED <<documents, result, use_mock, runs, writes, temp_dirs>>
    /\ UNCHANGED <<docVars, retryVars, poolVars, chgVars, fetchVars, concVars>>
    /\ UNCHANGED <<patchVars, execVars, state_writes>>
    /\ UNCHANGED auxVars

\* The "## " headings of a document of the full-regeneration branch, in order:
\* FullRepoMockBuilder._render writes a fixed template, FullRepoDocumentBuilder.build
\* writes a heading for every key given to add(), and the node adds all three keys
\* (a failed part as "").
SecondLevelHeadings(document_content) ==
    CASE document_content = "mock repository document" ->
             <<"Project Overview", "Key Modules">>
      [] document_content \in {"repository document", "repository document, empty parts"} ->
             <<"Project Overview", "Architecture", "Key Modules">>
      [] OTHER -> <<>>

full_repository_document_generator_node ==
    /\ pc = "full_repository_document_generator"
    /\ LET repo_name == IF state.repository_name = "None" THEN "Unknown Project"
                        ELSE state.repository_name
       IN IF state.file_summaries = 0
          THEN Step("full_repository_document_generator",
                    set_error(state, "file_summaries is empty"))
          ELSE IF use_mock
          THEN Step("full_repository_document_generator",
                    [state EXCEPT !.document_title = ProjectTitle(repo_name),
                                  !.document_content = "mock repository document",
                                  !.document_summary = "mock repository summary",
                                  !.status = "saving_document"])
          ELSE \E llm_init_raises \in BOOLEAN,
                    failed_parts \in SUBSET {"overview", "architecture", "modules"} :
                 IF llm_init_raises
                 THEN Step("full_repository_document_generator",
                           set_error(state, "Full document generation failed"))
                 ELSE \* a part that failed is added to the builder as ""
                      Step("full_repository_document_generator",
                           [state EXCEPT !.document_title = ProjectTitle(repo_name),
                                         !.document_content =
                                             IF failed_parts = {}
                                             THEN "repository document"
                                             ELSE "repository document, empty parts",
                                         !.document_summary = "repository summary",
                                         !.status = "saving_document"])
    /\ effects' = IF state.file_summaries # 0 /\ ~use_mock
                  THEN effects \cup {"completion"} ELSE effects
    /\ UNCHANGED <<documents, result, use_mock, runs, writes, temp_dirs>>
    /\ UNCHANGED <<docVars, retryVars, poolVars, chgVars, fetchVars, concVars>>
    /\ UNCHANGED <<patchVars, execVars, state_writes>>
    /\ UNCHANGED auxVars

\* Python truthiness of a text field: None and "" are falsy.
Falsy(text) == text \in {"None", ""}

document_saver_node ==
    /\ pc = "document_saver"
    /\ \E commit_raises \in BOOLEAN :
        IF Falsy(state.document_content)
        THEN /\ Step("document_saver",
                     [state EXCEPT !.status = "error",
                                   !.error = "Document content missing before save"])
             /\ UNCHANGED <<documents, writes>>
        ELSE IF state.document_summary = "None"
        THEN /\ Step("document_saver",
                     [state EXCEPT !.status = "error",
                                   !.error = "Document summary missing before save"])
             /\ UNCHANGED <<documents, writes>>
        ELSE IF state.should_update
        THEN LET doc_id == state.existing_document.id IN
             IF doc_id = 0 \/ doc_id \notin DOMAIN documents
             THEN /\ Step("document_saver", set_error(state, "Document saver failed"))
                  /\ UNCHANGED <<documents, writes>>
             ELSE LET s1 == [state EXCEPT !.document_id = doc_id, !.action = "updated"] IN
                  IF commit_raises
                  THEN /\ Step("document_saver", set_error(s1, "Document saver failed"))
                       /\ UNCHANGED <<documents, writes>>
                  ELSE /\ Step("document_saver", [s1 EXCEPT !.status = "completed"])
                       /\ documents' = [documents EXCEPT
                                           ![doc_id].content = state.document_content,
                                           ![doc_id].summary = state.document_summary,
                                           ![doc_id].status = "generated",
                                           ![doc_id].updated_at = Now]
                       /\ writes' = writes + 1
        ELSE IF Falsy(state.document_title)
        THEN /\ Step("document_saver", set_error(state, "Document saver failed"))
             /\ UNCHANGED <<documents, writes>>
        ELSE \* session.add + flush: commit_sha is unique in the documents table
             IF \E i \in DOMAIN documents : documents[i].commit_sha = state.code_change
             THEN /\ Step("document_saver", set_error(state, "Document saver failed"))
                  /\ UNCHANGED <<documents, writes>>
             ELSE LET s1 == [state EXCEPT !.document_id = Len(documents) + 1,
                                          !.action = "created"] IN
                  IF commit_raises
                  THEN /\ Step("document_saver", set_error(s1, "Document saver failed"))
                       /\ UNCHANGED <<documents, writes>>
                  ELSE /\ Step("document_saver", [s1 EXCEPT !.status = "completed"])
                       /\ documents' = Append(documents,
                              DocumentRow(state.document_title, state.document_content,
                                          state.document_summary, state.code_change,
                                          state.repository_name, state.code_change_id, 0))
                       /\ writes' = writes + 1
    /\ UNCHANGED <<result, use_mock, runs, effects, temp_dirs>>
    /\ UNCHANGED <<docVars, retryVars, poolVars, chgVars, fetchVars, concVars>>
    /\ UNCHANGED <<patchVars, execVars, state_writes>>
    /\ UNCHANGED auxVars

\* process(): the dict built from the final state of workflow.invoke.
process_return ==
    /\ pc = "END"
    /\ result' = IF state.status = "completed"
                 THEN [success |-> TRUE, document_id |-> state.document_id,
                       action |-> state.action, title |-> state.document_title,
                       summary |-> state.document_summary, error |-> "None"]
                 ELSE [success |-> FALSE, document_id |-> 0, action |-> "None",
                       title |-> "None", summary |-> "None",
                       error |-> IF state.error = "None" THEN "Unknown error" ELSE state.error]
    /\ pc' = "idle"
    /\ UNCHANGED <<state, documents, trace, use_mock, runs, errored, writes, effects,
                   temp_dirs>>
    /\ UNCHANGED <<docVars, retryVars, poolVars, chgVars, fetchVars, concVars>>
    /\ UNCHANGED <<patchVars, execVars, state_writes>>
    /\ UNCHANGED auxVars

\* DocumentService.process_code_change: an exception out of DocumentWorkflow(...)
\* or out of process() is caught.
process_code_change_uncaught ==
    /\ pc = "raised"
    /\ pc' = "idle"
    /\ UNCHANGED <<state, documents, trace, result, use_mock, runs, errored, writes, effects,
                   temp_dirs>>
    /\ UNCHANGED <<docVars, retryVars, poolVars, chgVars, fetchVars, concVars>>
    /\ UNCHANGED <<patchVars, execVars, state_writes>>
    /\ UNCHANGED auxVars
process_code_change_except ==
    /\ pc = "raised"
    /\ result' = [success |-> FALSE, document_id |-> 0, action |-> "None",
                  title |-> "None", summary |-> "None", error |-> "Document service failed"]
    /\ pc' = "idle"
    /\ UNCHANGED <<state, documents, trace, use_mock, runs, errored, writes, effects,
                   temp_dirs>>
    /\ UNCHANGED <<docVars, retryVars, poolVars, chgVars, fetchVars, concVars>>
    /\ UNCHANGED <<patchVars, execVars, state_writes>>
    /\ UNCHANGED auxVars

NoResult == [success |-> FALSE, document_id |-> 0, action |-> "None",
             title |-> "None", summary |-> "None", error |-> "None"]

\* Documents a repository can hold before the first run: none, or one generated
\* earlier for owner/repo (with or without content).
InitialDocuments ==
    {<<>>} \cup
    {<<DocumentRow("Existing Title", c, "existing summary", "sha0", "owner/repo", 9, 0)>> :
        c \in {"existing content", ""}}

\* ---- parts of the state a specification does not exercise stay at rest ----
WorkflowAtRest ==
    /\ pc = "idle" /\ state = InitialState(0) /\ documents = <<>> /\ trace = <<>>
    /\ result = NoResult /\ use_mock = TRUE /\ runs = 0 /\ errored = FALSE /\ writes = 0
    /\ effects = {} /\ temp_dirs = 0

DocAtRest ==
    /\ content = <<>> /\ target_sections = <<>> /\ generated = <<>> /\ max_chars = 0
    /\ doc_mock = FALSE
    /\ doc_out = <<>> /\ doc_op = "none" /\ updated = <<>> /\ failed = {}

RetryAtRest ==
    /\ rpc = "returned" /\ max_retries = 0 /\ extra = <<>> /\ attempt = 0
    /\ calls = 0 /\ sleeps = 0 /\ last_delay = 0 /\ last_error = <<>>

PoolAtRest ==
    /\ parsed_files = <<>> /\ summary_limit = 0 /\ pool_workers = 1 /\ pool_mock = TRUE
    /\ fpc = "done" /\ pending = <<>> /\ running = {} /\ finished = {}
    /\ file_summaries = <<>> /\ llm_fails = {} /\ llm_transient = {}

ChgAtRest ==
    /\ changed_files = <<>> /\ chg_mode = "mock" /\ chg_fails = {} /\ chg_nodiff = {}
    /\ chg_workers = 1 /\ cpc = "done" /\ chg_pending = <<>> /\ chg_running = {}
    /\ chg_finished = {} /\ summaries = <<>> /\ chg_out = <<>>

FetchAtRest ==
    /\ repo_meta = "error" /\ dpc = "done" /\ branches_to_try = <<>> /\ attempts = <<>>
    /\ repo_path = "None" /\ temp_dir = FALSE

ConcAtRest ==
    /\ cruns = <<>> /\ store = <<>>

PatchAtRest ==
    /\ patch_key = <<>> /\ patch_old = <<>> /\ patch_blocks = <<>> /\ patch_text = <<>>
    /\ patch_new = <<>> /\ patch_count = 0

ExecAtRest ==
    /\ ex_point = "sections" /\ ex_items = <<>> /\ ex_cap = 1 /\ ex_mock = TRUE /\ ex_fails = {}
    /\ ex_pc = "done" /\ ex_pending = <<>> /\ ex_running = {} /\ ex_finished = {}
    /\ ex_results = {} /\ ex_order = <<>> /\ ex_content = <<>>

ParseAtRest ==
    /\ code_files = <<>> /\ parser_mock = TRUE /\ ppc = "done" /\ parsed_records = <<>>
    /\ parser_state = [status |-> "error", error |-> "No code files to parse", parsed_files |-> <<>>]

DiffAtRest ==
    /\ file_changes = <<>> /\ diff_content = <<>> /\ diff_map = <<>>
    /\ lookup_file = <<>> /\ file_diff = <<>> /\ mpc = "found"

SvcAtRest == service_instance = <<>> /\ service_calls = <<>>

AuxAtRest == ParseAtRest /\ DiffAtRest /\ SvcAtRest

\* ---- the workflow specification ----
Init ==
    /\ pc = "idle"
    /\ state = InitialState(0)
    /\ documents \in InitialDocuments
    /\ trace = <<>>
    /\ result = NoResult
    /\ use_mock \in BOOLEAN
    /\ runs = 0
    /\ errored = FALSE
    /\ writes = 0
    /\ effects = {}
    /\ temp_dirs = 0
    /\ DocAtRest /\ RetryAtRest /\ PoolAtRest /\ ChgAtRest /\ FetchAtRest /\ ConcAtRest
    /\ PatchAtRest /\ ExecAtRest /\ state_writes = {} /\ AuxAtRest

Next ==
    \/ process
    \/ data_loader_node
    \/ document_decider_node
    \/ change_analyzer_node
    \/ document_generator_node
    \/ repository_analyzer_node
    \/ file_parser_node
    \/ file_summarizer_node
    \/ full_repository_document_generator_node
    \/ document_saver_node
    \/ process_return
    \/ process_code_change_except

Spec == Init /\ [][Next]_vars

\* ======================================================================
\* invoke_with_retry: utils/llm_backoff.py
\* ======================================================================

MaxRetries == 3

\* RETRYABLE_DEFAULT = ["rate limit", "timeout", "overloaded", "429"]
RETRYABLE_DEFAULT ==
    << <<"r","a","t","e"," ","l","i","m","i","t">>,
       <<"t","i","m","e","o","u","t">>,
       <<"o","v","e","r","l","o","a","d","e","d">>,
       <<"4","2","9">> >>

\* LLM_BASE_BACKOFF_SECONDS and LLM_MAX_BACKOFF_SECONDS, defaults, in seconds
BaseBackoff == 1
MaxBackoff == 10

\* random.uniform(0.8, 1.3), in hundredths
JitterValues == {80, 100, 130}

\* Values of LLM_RETRYABLE_ERROR_SUBSTRINGS: unset, one token, tokens with blanks,
\* capitals and an empty item.
ExtraValues ==
    { <<>>,
      <<"q","u","o","t","a">>,
      <<" ","Q","u","o","t","a"," ",",",",","b","u","s","y">> }

\* str(e) of the exceptions the backend raises
ErrorTexts ==
    { <<"4","2","9">>,
      <<"R","a","t","e"," ","L","i","m","i","t">>,
      <<"T","I","M","E","O","U","T">>,
      <<"O","v","e","r","l","o","a","d","e","d","!">>,
      <<"t","i","m","e"," ","o","u","t">>,
      <<"b","a","d"," ","k","e","y">>,
      <<"Q","U","O","T","A">>,
      <<"4","2","8">>,
      <<>> }

\* tokens = [t.strip().lower() for t in extra.split(',') if t.strip()]
ExtraTokens(env) ==
    LET parts == SplitOn(env, ",")
    IN {Lower(Strip(parts[i])) : i \in {j \in DOMAIN parts : Strip(parts[j]) # <<>>}}

\* _is_retryable_error, on the text of the exception
is_retryable_error(err) ==
    LET txt == Lower(err)
        keys == {RETRYABLE_DEFAULT[i] : i \in DOMAIN RETRYABLE_DEFAULT} \cup ExtraTokens(extra)
    IN \E key \in keys : Contains(txt, key)

\* 2 ** n
RECURSIVE Pow2(_)
Pow2(n) == IF n = 0 THEN 1 ELSE 2 * Pow2(n - 1)

Min(a, b) == IF a < b THEN a ELSE b

\* delay = min(max_backoff, base * (2 ** (attempt - 1))), before the jitter
Backoff(att) == Min(MaxBackoff, BaseBackoff * Pow2(att - 1))

\* the condition of the raise in the except clause, attempt already incremented
ShouldRaiseNoFatalCheck(att, err) == att > max_retries
ShouldRaiseAtCeiling(att, err) == att >= max_retries \/ ~is_retryable_error(err)
ShouldRaise(att, err) == att > max_retries \/ ~is_retryable_error(err)

\* llm.invoke(messages) returns: invoke_with_retry returns its value
llm_invoke_returns ==
    /\ rpc = "call"
    /\ calls' = calls + 1
    /\ rpc' = "returned"
    /\ UNCHANGED <<max_retries, extra, attempt, sleeps, last_delay, last_error>>
    /\ UNCHANGED <<wfVars, docVars, poolVars, chgVars, fetchVars, concVars>>
    /\ UNCHANGED <<patchVars, execVars, state_writes>>
    /\ UNCHANGED auxVars

\* llm.invoke(messages) raises e: the except clause, up to the raise or the sleep
llm_invoke_raises ==
    /\ rpc = "call"
    /\ \E e \in ErrorTexts, jitter \in JitterValues :
        /\ calls' = calls + 1
        /\ attempt' = attempt + 1
        /\ last_error' = e
        /\ IF ShouldRaise(attempt + 1, e)
           THEN rpc' = "raised" /\ last_delay' = last_delay
           ELSE rpc' = "sleep" /\ last_delay' = Backoff(attempt + 1) * jitter
    /\ UNCHANGED <<max_retries, extra, sleeps>>
    /\ UNCHANGED <<wfVars, docVars, poolVars, chgVars, fetchVars, concVars>>
    /\ UNCHANGED <<patchVars, execVars, state_writes>>
    /\ UNCHANGED auxVars

\* time.sleep(delay) returns and the loop calls again
sleep_returns ==
    /\ rpc = "sleep"
    /\ sleeps' = sleeps + 1
    /\ rpc' = "call"
    /\ UNCHANGED <<max_retries, extra, attempt, calls, last_delay, last_error>>
    /\ UNCHANGED <<wfVars, docVars, poolVars, chgVars, fetchVars, concVars>>
    /\ UNCHANGED <<patchVars, execVars, state_writes>>
    /\ UNCHANGED auxVars

RetryInit ==
    /\ rpc = "call"
    /\ max_retries \in 0..MaxRetries
    /\ extra \in ExtraValues
    /\ attempt = 0 /\ calls = 0 /\ sleeps = 0 /\ last_delay = 0 /\ last_error = <<>>
    /\ WorkflowAtRest /\ DocAtRest /\ PoolAtRest /\ ChgAtRest /\ FetchAtRest /\ ConcAtRest
    /\ PatchAtRest /\ ExecAtRest /\ state_writes = {} /\ AuxAtRest

RetryNext ==
    \/ llm_invoke_returns
    \/ llm_invoke_raises
    \/ sleep_returns

SpecRetry == RetryInit /\ [][RetryNext]_vars

\* ======================================================================
\* Properties of the workflow (Spec)
\* ======================================================================

IncrementalPath ==
    <<"data_loader", "document_decider", "change_analyzer", "document_generator",
      "document_saver">>
FullPath ==
    <<"data_loader", "document_decider", "repository_analyzer", "file_parser",
      "file_summarizer", "full_repository_document_generator", "document_saver">>

IsPrefix(a, b) == Len(a) <= Len(b) /\ SubSeq(b, 1, Len(a)) = a

\* C1: once a node of the run has set status to error, status stays error for the
\* rest of the run; the run ends with status error, process() reports
\* success = False and the run writes no document.
C1_ErrorIsTerminal ==
    errored =>
        /\ state.status = "error"
        /\ (pc = "idle" => ~result.success /\ writes = 0)

\* C2: once status is completed or error, no node that runs afterwards changes a
\* content field (document_title, document_content, document_summary,
\* analysis_result, target_doc_sections, should_update).
C2_ContentFrozenAfterTerminal ==
    [][(pc # "idle" /\ state.status \in {"completed", "error"})
          => ContentFields(state') = ContentFields(state)]_vars

C8_ExactlyNCalls ==
    (rpc = "raised" /\ is_retryable_error(last_error)) => calls = max_retries

\* C8 amended: N = LLM_MAX_RETRIES counts the retries: the call is made N + 1
\* times (the first call and N retries, each after one sleep), then the last
\* error is raised.
C8_RetriesThenRaise ==
    (rpc = "raised" /\ is_retryable_error(last_error))
        => calls = max_retries + 1 /\ sleeps = max_retries /\ attempt = max_retries + 1

C8_Witness ==
    /\ rpc = "raised" /\ is_retryable_error(last_error)
    /\ max_retries = 3 /\ calls = 4

\* The text contains none of the retryable substrings, compared case-insensitively:
\* the defaults and the configured additions.
NoRetryableSubstring(err) ==
    /\ \A i \in DOMAIN RETRYABLE_DEFAULT : ~Contains(Lower(err), RETRYABLE_DEFAULT[i])
    /\ \A tok \in ExtraTokens(extra) : ~Contains(Lower(err), tok)

\* C9: when the last backend call failed with an error that contains no retryable
\* substring, invoke_with_retry has raised it: every failure before it was
\* followed by one sleep, this one by none, and no call follows it.
C9_FatalErrorRaisedAtOnce ==
    (attempt > 0 /\ NoRetryableSubstring(last_error))
        => /\ rpc = "raised"
           /\ calls = attempt
           /\ sleeps = attempt - 1

C9_Witness ==
    /\ rpc = "raised" /\ attempt = 2 /\ max_retries = 3
    /\ last_error = <<"Q","U","O","T","A">> /\ extra = <<>>

\* ======================================================================
\* file_summarizer_node: nodes/file_summarizer_node.py, with its worker pool
\* ======================================================================

MaxFiles == 3
MaxWorkers == 3

\* file paths of the parsed records, pairwise distinct
FilePaths == 1..MaxFiles

ParsedFileLists ==
    UNION {{f \in [1..n -> FilePaths] : \A i, j \in 1..n : i # j => f[i] # f[j]} :
              n \in 0..MaxFiles}

\* FileSummarizerConfig.limit_files
limit_files(files) ==
    IF Len(files) > summary_limit /\ summary_limit > 0
    THEN SubSeq(files, 1, summary_limit)
    ELSE files

\* _get_summarizer_strategy: how the summary of one file is produced. The LLM
\* strategy is _generate_file_summary_with_llm(...) or _generate_fallback_file_summary(...):
\* the first returns None for every exception of llm.invoke or of the parsing of
\* its answer, and then the fallback summary is returned. llm.invoke is called
\* directly and once: a first call that fails is the only call.
SummaryMethods(file_path) ==
    IF pool_mock THEN {"mock"}
    ELSE IF file_path \in llm_fails \cup llm_transient THEN {"fallback"} ELSE {"llm"}

\* the dict a summarizer returns for a file
FileSummary(file_path, method) == [file_path |-> file_path, generation_method |-> method]

\* all ways to summarize the files in the order given
RECURSIVE SummariesInOrder(_)
SummariesInOrder(files) ==
    IF files = <<>> THEN {<<>>}
    ELSE {<<FileSummary(Head(files), m)>> \o rest :
             m \in SummaryMethods(Head(files)), rest \in SummariesInOrder(Tail(files))}

\* state[key] = ... for each of the keys, executed by the thread that called the
\* node while n pool threads were executing a worker function
WritesByCaller(keys, n) == {[key |-> k, thread |-> "caller", in_progress |-> n] : k \in keys}

\* the node from its entry to the return of the sequential path, or to the
\* submission of every file to the ThreadPoolExecutor
file_summarizer_enter ==
    /\ fpc = "start"
    /\ LET files == limit_files(parsed_files) IN
       IF parsed_files = <<>>
       THEN /\ fpc' = "error"
            /\ state_writes' = state_writes \cup WritesByCaller({"status", "error"}, 0)
            /\ UNCHANGED <<pending, file_summaries>>
       ELSE IF Len(files) > 1 /\ pool_workers > 1 /\ ~pool_mock
       THEN /\ fpc' = "pool"
            /\ pending' = [i \in 1..Len(files) |-> i]
            /\ UNCHANGED <<file_summaries, state_writes>>
       ELSE /\ fpc' = "done"
            /\ file_summaries' \in SummariesInOrder(files)
            /\ state_writes' = state_writes \cup
                                   WritesByCaller({"file_summaries", "status"}, 0)
            /\ UNCHANGED pending
    /\ UNCHANGED <<parsed_files, summary_limit, pool_workers, pool_mock, llm_fails, llm_transient,
                   running, finished>>
    /\ UNCHANGED <<wfVars, docVars, retryVars, chgVars, fetchVars, concVars>>
    /\ UNCHANGED <<patchVars, execVars>>
    /\ UNCHANGED auxVars

\* a free pool thread takes the oldest submitted work item
worker_takes ==
    /\ fpc = "pool"
    /\ pending # <<>>
    /\ Cardinality(running) < Min(pool_workers, Len(limit_files(parsed_files)))
    /\ running' = running \cup {Head(pending)}
    /\ pending' = Tail(pending)
    /\ UNCHANGED <<parsed_files, summary_limit, pool_workers, pool_mock, llm_fails, llm_transient,
                   fpc, finished, file_summaries>>
    /\ UNCHANGED <<wfVars, docVars, retryVars, chgVars, fetchVars, concVars>>
    /\ UNCHANGED <<patchVars, execVars, state_writes>>
    /\ UNCHANGED auxVars

\* _process_file(idx, file_info) returns in some pool thread
worker_returns ==
    /\ fpc = "pool"
    /\ \E idx \in running :
        \E m \in SummaryMethods(limit_files(parsed_files)[idx]) :
          /\ running' = running \ {idx}
          /\ finished' = finished \cup
                 {[idx |-> idx, summary |-> FileSummary(limit_files(parsed_files)[idx], m)]}
    /\ UNCHANGED <<parsed_files, summary_limit, pool_workers, pool_mock, llm_fails, llm_transient,
                   fpc, pending, file_summaries>>
    /\ UNCHANGED <<wfVars, docVars, retryVars, chgVars, fetchVars, concVars>>
    /\ UNCHANGED <<patchVars, execVars, state_writes>>
    /\ UNCHANGED auxVars

\* as_completed yields a finished future: file_summaries.append(fut.result())
as_completed_yields ==
    /\ fpc = "pool"
    /\ \E fut \in finished :
        /\ file_summaries' = Append(file_summaries, fut.summary)
        /\ finished' = finished \ {fut}
    /\ UNCHANGED <<parsed_files, summary_limit, pool_workers, pool_mock, llm_fails, llm_transient,
                   fpc, pending, running>>
    /\ UNCHANGED <<wfVars, docVars, retryVars, chgVars, fetchVars, concVars>>
    /\ UNCHANGED <<patchVars, execVars, state_writes>>
    /\ UNCHANGED auxVars

\* every future was yielded: the with block ends, state["file_summaries"] is set
file_summarizer_return ==
    /\ fpc = "pool"
    /\ Len(file_summaries) = Len(limit_files(parsed_files))
    /\ fpc' = "done"
    /\ state_writes' = state_writes \cup
                           WritesByCaller({"file_summaries", "status"}, Cardinality(running))
    /\ UNCHANGED <<parsed_files, summary_limit, pool_workers, pool_mock, llm_fails, llm_transient,
                   pending, running, finished, file_summaries>>
    /\ UNCHANGED <<wfVars, docVars, retryVars, chgVars, fetchVars, concVars>>
    /\ UNCHANGED <<patchVars, execVars>>
    /\ UNCHANGED auxVars

PoolInit ==
    /\ parsed_files \in ParsedFileLists
    /\ summary_limit \in {0, 2, SUMMARY_LIMIT}
    /\ pool_workers \in 1..MaxWorkers
    /\ pool_mock \in BOOLEAN
    /\ llm_fails \in SUBSET Range(parsed_files)
    /\ llm_transient \in {{}} \cup {{f} : f \in IF llm_fails = {} THEN Range(parsed_files) ELSE {}}
    /\ fpc = "start"
    /\ pending = <<>> /\ running = {} /\ finished = {} /\ file_summaries = <<>>
    /\ WorkflowAtRest /\ DocAtRest /\ RetryAtRest /\ ChgAtRest /\ FetchAtRest /\ ConcAtRest
    /\ PatchAtRest /\ ExecAtRest /\ state_writes = {} /\ AuxAtRest

PoolNext ==
    \/ file_summarizer_enter
    \/ worker_takes
    \/ worker_returns
    \/ as_completed_yields
    \/ file_summarizer_return

SpecPool == PoolInit /\ [][PoolNext]_vars

\* C10: state.file_summaries is in the order of the limit-truncated parsed_files,
\* whatever the completion order of the pool workers: the i-th summary is the
\* summary of the i-th parsed file.
C10_SummariesInInputOrder ==
    fpc = "done" =>
        /\ Len(file_summaries) = Len(limit_files(parsed_files))
        /\ \A i \in 1..Len(file_summaries) :
              file_summaries[i].file_path = limit_files(parsed_files)[i]

\* ======================================================================
\* Markdown section model: document_generator_node.py
\* ======================================================================

MaxSections == 2

T_overview     == <<"o","v","e","r","v","i","e","w">>
T_architecture == <<"a","r","c","h","i","t","e","c","t","u","r","e">>
T_modules      == <<"m","o","d","u","l","e","s">>
T_changelog    == <<"c","h","a","n","g","e","l","o","g">>
T_full         == <<"_","_","f","u","l","l","_","_">>
T_Document     == <<"D","o","c","u","m","e","n","t">>
NO_CHANGE      == <<"[","N","O","_","C","H","A","N","G","E","]">>
ADD            == <<"[","A","D","D","]">>
UPDATE         == <<"[","U","P","D","A","T","E",":">>

\* SECTION_KEY_MAP, in insertion order: <<key, variants>>
SECTION_KEY_MAP ==
    << <<T_overview,
         << <<"p","r","o","j","e","c","t"," ">> \o T_overview, T_overview >> >>,
       <<T_architecture,
         << T_architecture, <<"s","y","s","t","e","m"," ","d","e","s","i","g","n">> >> >>,
       <<T_modules,
         << <<"k","e","y"," ">> \o T_modules, T_modules >> >>,
       <<T_changelog,
         << T_changelog, <<"c","h","a","n","g","e"," ","l","o","g">>,
            <<"r","e","c","e","n","t"," ","c","h","a","n","g","e","s">> >> >> >>

Digits == <<"0","1","2","3","4","5","6","7","8","9">>

\* str(n) for n >= 0
RECURSIVE Str(_)
Str(n) == IF n < 10 THEN <<Digits[n + 1]>> ELSE Str(n \div 10) \o <<Digits[(n % 10) + 1]>>

\* the regex class [a-z0-9]
IsSlugChar(c) ==
    \/ \E i \in DOMAIN LowerCase : LowerCase[i] = c
    \/ \E i \in DOMAIN Digits : Digits[i] = c

\* re.sub(r'[^a-z0-9]+', '_', t)
RECURSIVE SubNonSlug(_)
SubNonSlug(t) ==
    IF t = <<>> THEN <<>>
    ELSE IF IsSlugChar(t[1]) THEN <<t[1]>> \o SubNonSlug(Tail(t))
    ELSE LET rest == {i \in 1..Len(t) : IsSlugChar(t[i])}
         IN IF rest = {} THEN <<"_">>
            ELSE <<"_">> \o SubNonSlug(SubSeq(t, CHOOSE i \in rest : \A j \in rest : i <= j, Len(t)))

\* t.strip(c) for one character c
StripChar(t, c) ==
    LET keep == {i \in 1..Len(t) : t[i] # c}
    IN IF keep = {} THEN <<>>
       ELSE SubSeq(t, CHOOSE i \in keep : \A j \in keep : i <= j,
                      CHOOSE i \in keep : \A j \in keep : j <= i)

SlugMax == 40

normalize_section_key(heading) ==
    LET lower == Lower(heading)
        hits == {k \in DOMAIN SECTION_KEY_MAP :
                    \E v \in DOMAIN SECTION_KEY_MAP[k][2] : Contains(lower, SECTION_KEY_MAP[k][2][v])}
    IN IF hits # {}
       THEN SECTION_KEY_MAP[CHOOSE k \in hits : \A j \in hits : k <= j][1]
       ELSE LET slug == StripChar(SubNonSlug(lower), "_")
            IN Slice(slug, 0, Min(SlugMax, Len(slug)))

\* ^ under re.MULTILINE
LineStart(t, i) == i = 1 \/ t[i - 1] = "\n"

\* first position at or after from that holds no whitespace (Len(t) + 1: none)
SpaceRunEnd(t, from) ==
    CHOOSE j \in from..(Len(t) + 1) :
        /\ j = Len(t) + 1 \/ ~IsSpace(t[j])
        /\ \A k \in from..(j - 1) : IsSpace(t[k])

\* first position at or after from that holds a newline (Len(t) + 1: none)
LineEnd(t, from) ==
    CHOOSE j \in from..(Len(t) + 1) :
        /\ j = Len(t) + 1 \/ t[j] = "\n"
        /\ \A k \in from..(j - 1) : t[k] # "\n"

\* r'^##\s+(.+)$' tried at position i: the positions where group 1 can start.
\* \s+ is greedy and also runs over newlines; it gives characters back until
\* the one after it is not a newline.
HeadingTextStarts(t, i) ==
    IF LineStart(t, i) /\ StartsAt(t, <<"#","#">>, i)
    THEN {p \in (i + 3)..SpaceRunEnd(t, i + 2) : p <= Len(t) /\ t[p] # "\n"}
    ELSE {}

HeadingMatchAt(t, i) ==
    LET starts == HeadingTextStarts(t, i)
        p == CHOOSE q \in starts : \A r \in starts : r <= q
    IN [start |-> i, text_from |-> p, end |-> LineEnd(t, p)]

\* pattern.finditer(content): matches left to right, not overlapping
RECURSIVE heading_matches(_, _)
heading_matches(t, from) ==
    LET found == {i \in from..Len(t) : HeadingTextStarts(t, i) # {}}
    IN IF found = {} THEN <<>>
       ELSE LET m == HeadingMatchAt(t, CHOOSE i \in found : \A j \in found : i <= j)
            IN <<m>> \o heading_matches(t, m.end)

EmptyMap == [k \in {} |-> <<>>]

\* the "while unique_key in sections" loop
UniqueKey(key, used) ==
    IF key \notin used THEN key
    ELSE LET Suffixed(n) == key \o <<"_">> \o Str(n)
             n == CHOOSE c \in 2..(Cardinality(used) + 2) :
                     /\ Suffixed(c) \notin used
                     /\ \A b \in 2..(c - 1) : Suffixed(b) \in used
         IN Suffixed(n)

RECURSIVE parse_sections_from(_, _, _, _)
parse_sections_from(t, ms, idx, acc) ==
    IF idx > Len(ms) THEN acc
    ELSE LET m == ms[idx]
             heading == Strip(SubSeq(t, m.text_from, m.end - 1))
             stop == IF idx + 1 <= Len(ms) THEN ms[idx + 1].start - 1 ELSE Len(t)
             body == Strip(SubSeq(t, m.end, stop))
             unique_key == UniqueKey(normalize_section_key(heading), DOMAIN acc.sections)
         IN parse_sections_from(t, ms, idx + 1,
                [sections |-> acc.sections @@ (unique_key :> body),
                 order    |-> Append(acc.order, unique_key),
                 headings |-> acc.headings @@ (unique_key :> heading)])

\* _parse_markdown_sections: a ParsedDocument (sections, order, headings)
parse_markdown_sections(t) ==
    LET ms == heading_matches(t, 1)
    IN IF ms = <<>>
       THEN [sections |-> (T_full :> t), order |-> <<T_full>>, headings |-> (T_full :> T_Document)]
       ELSE parse_sections_from(t, ms, 1, [sections |-> EmptyMap, order |-> <<>>, headings |-> EmptyMap])

\* _merge_sections, with the updates mapping as a function key -> text
merge_sections(parsed, upd) ==
    LET lines == [i \in 1..Len(parsed.order) |->
                    LET key == parsed.order[i]
                        body == IF key \in DOMAIN upd THEN upd[key] ELSE parsed.sections[key]
                    IN <<"#","#"," ">> \o parsed.headings[key] \o <<"\n">> \o Strip(body) \o <<"\n">>]
    IN Strip(Join(lines, <<"\n">>))

\* t.split(sep) for a separator of several characters
RECURSIVE SplitText(_, _)
SplitText(t, sep) ==
    LET cuts == {i \in 1..Len(t) : StartsAt(t, sep, i)}
    IN IF cuts = {} THEN <<t>>
       ELSE LET c == CHOOSE i \in cuts : \A j \in cuts : i <= j
            IN <<SubSeq(t, 1, c - 1)>> \o SplitText(SubSeq(t, c + Len(sep), Len(t)), sep)

\* t.replace(key, '')
RECURSIVE Remove(_, _)
Remove(t, key) ==
    LET hits == {i \in 1..Len(t) : StartsAt(t, key, i)}
    IN IF hits = {} THEN t
       ELSE LET c == CHOOSE i \in hits : \A j \in hits : i <= j
            IN SubSeq(t, 1, c - 1) \o Remove(SubSeq(t, c + Len(key), Len(t)), key)

\* re.sub(r'\[UPDATE:[^\]]*\]', '', t)
RECURSIVE RemoveUpdateMarkers(_)
RemoveUpdateMarkers(t) ==
    LET hits == {i \in 1..Len(t) : /\ StartsAt(t, UPDATE, i)
                                   /\ \E c \in (i + Len(UPDATE))..Len(t) : t[c] = "]"}
    IN IF hits = {} THEN t
       ELSE LET i == CHOOSE h \in hits : \A j \in hits : h <= j
                closers == {c \in (i + Len(UPDATE))..Len(t) : t[c] = "]"}
                c == CHOOSE x \in closers : \A y \in closers : x <= y
            IN SubSeq(t, 1, i - 1) \o RemoveUpdateMarkers(SubSeq(t, c + 1, Len(t)))

\* _merge_changelog
merge_changelog(old_content, new_entry) ==
    IF new_entry = <<>> \/ Contains(new_entry, NO_CHANGE) THEN old_content
    ELSE IF Strip(old_content) = <<>> THEN new_entry
    ELSE RStrip(old_content) \o <<"\n">> \o new_entry

\* end of the lazy group ([^\[]*?) before the lookahead (?=\[|$): the first
\* position that holds "[", or is the end of the text, or is before a final newline
LazyEnd(t, from) ==
    LET Stop(r) == \/ r = Len(t) + 1
                   \/ t[r] = "["
                   \/ r = Len(t) /\ t[r] = "\n"
    IN CHOOSE r \in from..(Len(t) + 1) : Stop(r) /\ \A k \in from..(r - 1) : ~Stop(k)

\* r'\[UPDATE:\s*([^\]]+)\]\s*\n*([^\[]*?)(?=\[|$)' tried at position i
UpdateMatchesAt(t, i) ==
    /\ StartsAt(t, UPDATE, i)
    /\ \E c \in (i + Len(UPDATE) + 1)..Len(t) :
          t[c] = "]" /\ \A k \in (i + Len(UPDATE))..(c - 1) : t[k] # "]"

UpdateMatchAt(t, i) ==
    LET e == i + Len(UPDATE)
        c == CHOOSE x \in (e + 1)..Len(t) : t[x] = "]" /\ \A k \in e..(x - 1) : t[k] # "]"
        p == SpaceRunEnd(t, e)
        q == SpaceRunEnd(t, c + 1)
        r == LazyEnd(t, q)
    IN [snippet |-> SubSeq(t, IF p < c THEN p ELSE c - 1, c - 1),
        new_content |-> SubSeq(t, q, r - 1),
        end |-> r]

\* update_pattern.findall(changes)
RECURSIVE update_matches(_, _)
update_matches(t, from) ==
    LET found == {i \in from..Len(t) : UpdateMatchesAt(t, i)}
    IN IF found = {} THEN <<>>
       ELSE LET m == UpdateMatchAt(t, CHOOSE i \in found : \A j \in found : i <= j)
            IN <<m>> \o update_matches(t, m.end)

\* add_pattern.findall(changes): r'\[ADD\]\s*\n*([^\[]*?)(?=\[|$)'
RECURSIVE add_matches(_, _)
add_matches(t, from) ==
    LET found == {i \in from..Len(t) : StartsAt(t, ADD, i)}
    IN IF found = {} THEN <<>>
       ELSE LET i == CHOOSE h \in found : \A j \in found : h <= j
                q == SpaceRunEnd(t, i + Len(ADD))
                r == LazyEnd(t, q)
            IN <<SubSeq(t, q, r - 1)>> \o add_matches(t, r)

SnippetKeyMax == 30

\* first index of parts whose text holds the snippet (0: none)
FirstHolding(parts, snippet_key, snippet) ==
    LET hits == {i \in DOMAIN parts : Contains(parts[i], snippet_key) \/ Contains(parts[i], snippet)}
    IN IF hits = {} THEN 0 ELSE CHOOSE i \in hits : \A j \in hits : i <= j

\* body of the loop over the [UPDATE: ...] matches
apply_update(res, m) ==
    LET snippet == Strip(m.snippet)
        new_text == Strip(m.new_content)
        snippet_key == IF Len(snippet) > SnippetKeyMax THEN Slice(snippet, 0, SnippetKeyMax) ELSE snippet
        lines == SplitOn(res, "\n")
        li == FirstHolding(lines, snippet_key, snippet)
        paragraphs == SplitText(res, <<"\n","\n">>)
        pi == FirstHolding(paragraphs, snippet_key, snippet)
    IN IF new_text = <<>> THEN res
       ELSE IF li # 0 THEN Join([lines EXCEPT ![li] = new_text], <<"\n">>)
       ELSE IF pi # 0 THEN Join([paragraphs EXCEPT ![pi] = new_text], <<"\n","\n">>)
       ELSE RStrip(res) \o <<"\n","\n">> \o new_text

RECURSIVE apply_updates(_, _)
apply_updates(res, ms) ==
    IF ms = <<>> THEN res ELSE apply_updates(apply_update(res, ms[1]), Tail(ms))

RECURSIVE apply_adds(_, _)
apply_adds(res, adds) ==
    IF adds = <<>> THEN res
    ELSE LET new_text == Strip(adds[1])
         IN apply_adds(IF new_text # <<>> THEN RStrip(res) \o <<"\n","\n">> \o new_text ELSE res,
                       Tail(adds))

\* _merge_section_changes without its first two lines (the early return)
merge_section_changes_no_early_return(old_content, changes) ==
    IF Strip(old_content) = <<>>
    THEN Strip(RemoveUpdateMarkers(Strip(Remove(Remove(changes, ADD), UPDATE))))
    ELSE Strip(apply_adds(apply_updates(old_content, update_matches(changes, 1)),
                          add_matches(changes, 1)))

\* _merge_section_changes
merge_section_changes(old_content, changes) ==
    IF changes = <<>> \/ Contains(changes, NO_CHANGE) THEN old_content
    ELSE IF Strip(old_content) = <<>>
    THEN Strip(RemoveUpdateMarkers(Strip(Remove(Remove(changes, ADD), UPDATE))))
    ELSE Strip(apply_adds(apply_updates(old_content, update_matches(changes, 1)),
                          add_matches(changes, 1)))

\* _update_section_llm, given the text the completion client returned
update_section_llm(section_key, old_text, completion) ==
    LET gen == Strip(completion)
    IN IF section_key = T_changelog THEN merge_changelog(old_text, gen)
       ELSE merge_section_changes(old_text, gen)

MockEntryMax == 60
MockNoteMax == 50

\* _update_section_mock
update_section_mock(section_key, old_text, commit_msg) ==
    IF section_key = T_changelog
    THEN merge_changelog(old_text, <<"-"," ">> \o Slice(commit_msg, 0, Min(MockEntryMax, Len(commit_msg))))
    ELSE RStrip(old_text) \o <<"\n","\n","*","U","p","d","a","t","e","d",":"," ">>
            \o Slice(commit_msg, 0, Min(MockNoteMax, Len(commit_msg))) \o <<"*">>

\* _handle_partial_update._process_section: the new text of one target section
process_section(parsed, section_key, limit, mock, gen, commit_msg) ==
    LET sec_old == IF section_key \in DOMAIN parsed.sections THEN parsed.sections[section_key] ELSE <<>>
        trimmed_old == IF Len(sec_old) > limit THEN Slice(sec_old, 0, limit) ELSE sec_old
    IN IF mock THEN update_section_mock(section_key, trimmed_old, commit_msg)
       ELSE update_section_llm(section_key, trimmed_old, gen[section_key])

\* ---- inputs ----

\* text before the first section of a stored document: none, the title line, the
\* title line and a line of introduction
Preambles == { <<>>, <<"#"," ","T","\n">>, <<"#"," ","T","\n","i","n","\n">> }

HeadingLines ==
    { <<"#","#"," ","O","v","e","r","v","i","e","w","\n">>,
      <<"#","#"," ","C","h","a","n","g","e","l","o","g","\n">>,
      <<"#","#"," ","a","\n">>,
      <<"#","#"," "," ">> }

Bodies == { <<>>, <<"x","\n">>, <<"w","x","y","z","\n">> }

RECURSIVE SectionTexts(_)
SectionTexts(n) ==
    IF n = 0 THEN {<<>>}
    ELSE SectionTexts(n - 1) \cup
         {s \o h \o b : s \in SectionTexts(n - 1), h \in HeadingLines, b \in Bodies}

\* existing_document["content"]
Documents == {p \o s : p \in Preambles, s \in SectionTexts(MaxSections)}

\* existing_document["title"]
DocTitle == <<"T">>

\* code_change["commit_message"]
CommitMsg == <<"f","i","x">>

\* values of an updates mapping
UpdateBodies == { <<>>, <<"n">>, <<"n","\n","#","#"," ","z","\n","w">> }

UpdateMaps(parsed) ==
    UNION {[S -> UpdateBodies] : S \in SUBSET (Range(parsed.order) \cup {T_modules})}

\* state["target_doc_sections"]
TargetLists == { <<T_changelog>>, <<T_overview, T_changelog>> }

\* texts the completion client returns for a section
GeneratedTexts ==
    { NO_CHANGE, <<>>, <<"-"," ","e">>, ADD \o <<" ","n">>,
      UPDATE \o <<" ","x","]","\n","y">> }

\* PARTIAL_DOC_UPDATE_MAX_SECTION_CHARS: the default, and a small configured value
DefaultMaxChars == 6000
SmallMaxChars == 3

\* ---- operations ----

\* _merge_sections(_parse_markdown_sections(content), updates)
merge_sections_call ==
    /\ doc_op = "none"
    /\ \E parsed \in {parse_markdown_sections(content)} :
          \E upd \in UpdateMaps(parsed) :
             /\ doc_out' = merge_sections(parsed, upd)
             /\ updated' = upd
    /\ doc_op' = "merge"
    /\ UNCHANGED <<content, target_sections, generated, max_chars, doc_mock, failed>>
    /\ UNCHANGED <<wfVars, retryVars, poolVars, chgVars, fetchVars, concVars>>
    /\ UNCHANGED <<patchVars, execVars, state_writes>>
    /\ UNCHANGED auxVars

\* _handle_partial_update, for every set of target sections whose completion call
\* raises (invoke_with_retry gave up): _update_section_llm and _process_section
\* catch nothing, so the exception leaves the loop over the sections (fut.result()
\* re-raises it in the pool) and the function, and the except clause of
\* document_generator_node turns it into status error.
handle_partial_update ==
    /\ doc_op = "none"
    /\ \E parsed \in {parse_markdown_sections(content)} :
         \E targets \in TargetLists, limit \in {SmallMaxChars, DefaultMaxChars},
            mock \in BOOLEAN :
           \E gen \in (IF mock THEN {EmptyMap} ELSE [Range(targets) -> GeneratedTexts]),
              fails \in SUBSET Range(targets) :
              /\ target_sections' = targets
              /\ max_chars' = limit
              /\ doc_mock' = mock
              /\ generated' = gen
              /\ failed' = IF mock \/ content = <<>> THEN {} ELSE fails
              /\ IF content = <<>> \/ (fails # {} /\ ~mock)
                 THEN /\ doc_op' = "error"
                      /\ UNCHANGED <<doc_out, updated>>
                 ELSE \E updated_map \in {[k \in Range(targets) |->
                                             process_section(parsed, k, limit, mock, gen, CommitMsg)]} :
                         /\ doc_out' = <<"#"," ">> \o DocTitle \o <<"\n","\n">>
                                          \o merge_sections(parsed, updated_map)
                         /\ updated' = updated_map
                         /\ doc_op' = "partial"
    /\ UNCHANGED content
    /\ UNCHANGED <<wfVars, retryVars, poolVars, chgVars, fetchVars, concVars>>
    /\ UNCHANGED <<patchVars, execVars, state_writes>>
    /\ UNCHANGED auxVars

DocInit ==
    /\ content \in Documents
    /\ target_sections = <<>> /\ generated = <<>> /\ max_chars = 0 /\ doc_mock = FALSE
    /\ doc_out = <<>> /\ doc_op = "none" /\ updated = <<>> /\ failed = {}
    /\ WorkflowAtRest /\ RetryAtRest /\ PoolAtRest /\ ChgAtRest /\ FetchAtRest /\ ConcAtRest
    /\ PatchAtRest /\ ExecAtRest /\ state_writes = {} /\ AuxAtRest

DocNext ==
    \/ merge_sections_call
    \/ handle_partial_update

SpecDoc == DocInit /\ [][DocNext]_vars

\* ======================================================================
\* Claims on the markdown section model
\* ======================================================================

IsSuffix(a, b) == Len(a) <= Len(b) /\ SubSeq(b, Len(b) - Len(a) + 1, Len(b)) = a

\* C4: in a partial update every target section for which the completion is
\* [NO_CHANGE] has in the resulting document exactly the body it had in the
\* existing document, whatever the length of that body.
C4_NoChangeKeepsBody ==
    (doc_op = "partial" /\ ~doc_mock) =>
        \A before \in {parse_markdown_sections(content).sections},
           after \in {parse_markdown_sections(doc_out).sections} :
           \A k \in Range(target_sections) :
              (k \in DOMAIN before /\ Strip(generated[k]) = NO_CHANGE) =>
                  /\ k \in DOMAIN after
                  /\ after[k] = before[k]

\* C5: in a partial update that targets the changelog with a non-empty entry, the
\* changelog of the resulting document is the complete prior changelog body
\* followed by the new entry, whatever the length of the prior body.
C5_ChangelogKeepsPriorBody ==
    (/\ doc_op = "partial" /\ ~doc_mock
     /\ T_changelog \in Range(target_sections)
     /\ Strip(generated[T_changelog]) # <<>>
     /\ ~Contains(generated[T_changelog], NO_CHANGE)) =>
        \A before \in {parse_markdown_sections(content).sections},
           after \in {parse_markdown_sections(doc_out).sections},
           entry \in {Strip(generated[T_changelog])} :
           T_changelog \in DOMAIN before =>
              /\ T_changelog \in DOMAIN after
              /\ IsPrefix(before[T_changelog], after[T_changelog])
              /\ IsSuffix(entry, after[T_changelog])
              /\ Len(after[T_changelog]) >= Len(before[T_changelog]) + Len(entry)

\* C6: the output of _merge_sections has as many sections as were parsed, in the
\* order of discovery, each under its original heading text, and every section
\* whose key is not in the updates mapping has exactly its parsed body.
C6_MergeKeepsSections ==
    doc_op = "merge" =>
        \A p \in {parse_markdown_sections(content)},
           q \in {parse_markdown_sections(doc_out)} :
           /\ Len(q.order) = Len(p.order)
           /\ \A i \in 1..Len(p.order) :
                 /\ q.headings[q.order[i]] = p.headings[p.order[i]]
                 /\ p.order[i] \notin DOMAIN updated =>
                       q.sections[q.order[i]] = p.sections[p.order[i]]

\* Trailing-whitespace normalization: the whitespace that ends each line and the
\* blank lines are dropped.
TrailingNormalized(t) ==
    SelectSeq([i \in DOMAIN SplitOn(t, "\n") |-> RStrip(SplitOn(t, "\n")[i])],
              LAMBDA line : line # <<>>)

\* C7: for a document with at least one second-level heading, merging the parsed
\* document with no update gives the document back, up to trailing whitespace.
C7_RoundTrip ==
    (/\ doc_op = "merge"
     /\ updated = EmptyMap
     /\ heading_matches(content, 1) # <<>>) =>
        TrailingNormalized(doc_out) = TrailingNormalized(content)

\* C33: in a partial update, for every target section key, also one that has no
\* section in the existing document, the text generated for that key appears in
\* the resulting document.
C33_TargetTextInDocument ==
    doc_op = "partial" =>
        \A k \in Range(target_sections) : Contains(doc_out, Strip(updated[k]))

\* the text of the existing document before its first second-level heading
TextBeforeFirstHeading(t) ==
    LET ms == heading_matches(t, 1)
    IN IF ms = <<>> THEN <<>> ELSE SubSeq(t, 1, ms[1].start - 1)

\* C34: a partial update preserves all text of the existing document that
\* precedes its first second-level heading (the title line and any introductory
\* text): that text appears unchanged in the resulting document content.
C34_PreambleKept ==
    (doc_op = "partial" /\ heading_matches(content, 1) # <<>>) =>
        Contains(doc_out, TextBeforeFirstHeading(content))

\* C12: in a partial update in which the completion of some target sections
\* fails, the node does not fail the batch: the document is produced, every failing
\* section keeps its old body and the other target sections carry their updates.
C12_SectionFailureContained ==
    (doc_op \in {"partial", "error"} /\ ~doc_mock /\ content # <<>> /\ failed # {}) =>
        /\ doc_op = "partial"
        /\ \A before \in {parse_markdown_sections(content).sections},
              after \in {parse_markdown_sections(doc_out).sections} :
              \A k \in Range(target_sections) :
                 /\ (k \in failed /\ k \in DOMAIN before) =>
                        (k \in DOMAIN after /\ after[k] = before[k])
                 /\ k \notin failed => (k \in DOMAIN updated /\ k \in DOMAIN after)

\* ======================================================================
\* _generate_file_summaries: nodes/change_analyzer_node.py, with its worker pool
\* ======================================================================

MaxChanged == 3

\* file names of a change
ChangedPaths ==
    [api    |-> <<"a","p","i",".","p","y">>,
     Model  |-> <<"M","o","d","e","l",".","p","y">>,
     util   |-> <<"u","t","i","l",".","p","y">>,
     README |-> <<"R","E","A","D","M","E",".","m","d">>]

\* changed_files: lists of pairwise distinct paths
ChangedFileLists ==
    UNION {{f \in [1..n -> Range(ChangedPaths)] : \A i, j \in 1..n : i # j => f[i] # f[j]} :
              n \in 0..MaxChanged}

\* _get_file_priority: the substrings looked for in the lowered path, by the
\* priority returned
get_file_priority(filepath) ==
    LET lower == Lower(filepath)
        high == {<<"r","o","u","t","e","r">>, <<"e","n","d","p","o","i","n","t">>,
                   <<"c","o","n","t","r","o","l","l","e","r">>, <<"a","p","i">>,
                   <<"s","c","h","e","m","a">>, <<"m","o","d","e","l">>, <<"e","n","t","i","t","y">>,
                   <<"s","e","r","v","i","c","e">>, <<"h","a","n","d","l","e","r">>,
                   <<"m","a","n","a","g","e","r">>, <<"a","u","t","h">>,
                   <<"s","e","c","u","r","i","t","y">>, <<"p","e","r","m","i","s","s","i","o","n">>,
                   <<"d","a","t","a","b","a","s","e">>, <<"m","i","g","r","a","t","i","o","n">>,
                   <<"c","o","n","f","i","g">> }
        medium == {<<"u","t","i","l">>, <<"h","e","l","p","e","r">>,
                    <<"m","i","d","d","l","e","w","a","r","e">>, <<"t","e","s","t">>,
                    <<"s","p","e","c">> }
    IN IF \E x \in high : Contains(lower, x) THEN "high"
       ELSE IF \E x \in medium : Contains(lower, x) THEN "medium"
       ELSE "low"

\* the dict appended for a file; kind names the text put in "summary":
\* "mock", "no_llm", "low" (not sent to the completion client), "no_diff",
\* "llm" (the answer of the client) or "failed" (the text of the except clause)
ChangeSummary(file, kind) == [file |-> file, priority |-> get_file_priority(file), kind |-> kind]

\* _summarize(file, priority): the except clause around invoke_with_retry turns a
\* failed completion into the fallback text
summarize(file) ==
    IF file \in chg_nodiff THEN ChangeSummary(file, "no_diff")
    ELSE IF file \in chg_fails THEN ChangeSummary(file, "failed")
    ELSE ChangeSummary(file, "llm")

\* order_map = {s["file"]: s for s in summaries}: the last summary of a file wins;
\* return [order_map[f] for f in changed_files if f in order_map]
restore_order_none(changed, sums) == sums
restore_order(changed, sums) ==
    LET order_map == [f \in {sums[i].file : i \in DOMAIN sums} |->
                         sums[CHOOSE i \in DOMAIN sums :
                                 /\ sums[i].file = f
                                 /\ \A j \in DOMAIN sums : sums[j].file = f => j <= i]]
        present == SelectSeq(changed, LAMBDA f : f \in DOMAIN order_map)
    IN [i \in DOMAIN present |-> order_map[present[i]]]

\* the function from its entry to a return without pool (mock, no client, no
\* high or medium file), or to the submission of the high and medium files
generate_file_summaries_enter ==
    /\ cpc = "start"
    /\ IF chg_mode \in {"mock", "no_llm"}
       THEN /\ summaries' = [i \in DOMAIN changed_files |-> ChangeSummary(changed_files[i], chg_mode)]
            /\ chg_out' = summaries'
            /\ cpc' = "done"
            /\ UNCHANGED chg_pending
       ELSE \E direct \in {[i \in DOMAIN changed_files |-> ChangeSummary(changed_files[i], "low")]},
               high_medium \in {SelectSeq(changed_files,
                                          LAMBDA f : get_file_priority(f) # "low")} :
              /\ summaries' = SelectSeq(direct, LAMBDA s : s.priority = "low")
              /\ IF high_medium = <<>>
                 THEN /\ chg_out' = restore_order(changed_files, summaries')
                      /\ cpc' = "done"
                      /\ UNCHANGED chg_pending
                 ELSE /\ chg_pending' = high_medium
                      /\ cpc' = "pool"
                      /\ UNCHANGED chg_out
    /\ UNCHANGED <<changed_files, chg_mode, chg_fails, chg_nodiff, chg_workers, chg_running,
                   chg_finished>>
    /\ UNCHANGED <<wfVars, docVars, retryVars, poolVars, fetchVars, concVars>>
    /\ UNCHANGED <<patchVars, execVars, state_writes>>
    /\ UNCHANGED auxVars

\* a free pool thread takes the oldest submitted work item
chg_worker_takes ==
    /\ cpc = "pool"
    /\ chg_pending # <<>>
    /\ Cardinality(chg_running) < chg_workers
    /\ chg_running' = chg_running \cup {Head(chg_pending)}
    /\ chg_pending' = Tail(chg_pending)
    /\ UNCHANGED <<changed_files, chg_mode, chg_fails, chg_nodiff, chg_workers, cpc,
                   chg_finished, summaries, chg_out>>
    /\ UNCHANGED <<wfVars, docVars, retryVars, poolVars, fetchVars, concVars>>
    /\ UNCHANGED <<patchVars, execVars, state_writes>>
    /\ UNCHANGED auxVars

\* _summarize(f, p) returns in some pool thread
chg_worker_returns_uncaught ==
    /\ cpc = "pool"
    /\ \E f \in chg_running :
        /\ chg_running' = chg_running \ {f}
        /\ IF f \in chg_fails \ chg_nodiff
           THEN cpc' = "raised" /\ UNCHANGED chg_finished
           ELSE cpc' = cpc /\ chg_finished' = chg_finished \cup {summarize(f)}
    /\ UNCHANGED <<changed_files, chg_mode, chg_fails, chg_nodiff, chg_workers,
                   chg_pending, summaries, chg_out>>
    /\ UNCHANGED <<wfVars, docVars, retryVars, poolVars, fetchVars, concVars>>
    /\ UNCHANGED <<patchVars, execVars, state_writes>>
    /\ UNCHANGED auxVars
chg_worker_returns ==
    /\ cpc = "pool"
    /\ \E f \in chg_running :
        /\ chg_running' = chg_running \ {f}
        /\ chg_finished' = chg_finished \cup {summarize(f)}
    /\ UNCHANGED <<changed_files, chg_mode, chg_fails, chg_nodiff, chg_workers, cpc,
                   chg_pending, summaries, chg_out>>
    /\ UNCHANGED <<wfVars, docVars, retryVars, poolVars, fetchVars, concVars>>
    /\ UNCHANGED <<patchVars, execVars, state_writes>>
    /\ UNCHANGED auxVars

\* as_completed yields a finished future: summaries.append(fut.result())
chg_as_completed_yields ==
    /\ cpc = "pool"
    /\ \E fut \in chg_finished :
        /\ summaries' = Append(summaries, fut)
        /\ chg_finished' = chg_finished \ {fut}
    /\ UNCHANGED <<changed_files, chg_mode, chg_fails, chg_nodiff, chg_workers, cpc,
                   chg_pending, chg_running, chg_out>>
    /\ UNCHANGED <<wfVars, docVars, retryVars, poolVars, fetchVars, concVars>>
    /\ UNCHANGED <<patchVars, execVars, state_writes>>
    /\ UNCHANGED auxVars

\* every future was yielded: the with block ends and the order is restored
generate_file_summaries_return ==
    /\ cpc = "pool"
    /\ chg_pending = <<>> /\ chg_running = {} /\ chg_finished = {}
    /\ chg_out' = restore_order(changed_files, summaries)
    /\ cpc' = "done"
    /\ UNCHANGED <<changed_files, chg_mode, chg_fails, chg_nodiff, chg_workers,
                   chg_pending, chg_running, chg_finished, summaries>>
    /\ UNCHANGED <<wfVars, docVars, retryVars, poolVars, fetchVars, concVars>>
    /\ UNCHANGED <<patchVars, execVars, state_writes>>
    /\ UNCHANGED auxVars

\* With use_mock or without a client no completion call is made and no pool is
\* used: the inputs that only those read are pinned.
ChgInit ==
    /\ changed_files \in ChangedFileLists
    /\ chg_mode \in {"mock", "no_llm", "llm"}
    /\ chg_fails \in SUBSET {f \in Range(changed_files) : get_file_priority(f) # "low"}
    /\ chg_nodiff \in {{}, {ChangedPaths.api}}
    /\ chg_workers \in 1..MaxWorkers
    /\ chg_mode # "llm" => (chg_fails = {} /\ chg_nodiff = {} /\ chg_workers = 1)
    /\ cpc = "start"
    /\ chg_pending = <<>> /\ chg_running = {} /\ chg_finished = {}
    /\ summaries = <<>> /\ chg_out = <<>>
    /\ WorkflowAtRest /\ DocAtRest /\ RetryAtRest /\ PoolAtRest /\ FetchAtRest /\ ConcAtRest
    /\ PatchAtRest /\ ExecAtRest /\ state_writes = {} /\ AuxAtRest

ChgNext ==
    \/ generate_file_summaries_enter
    \/ chg_worker_takes
    \/ chg_worker_returns
    \/ chg_as_completed_yields
    \/ generate_file_summaries_return

SpecChg == ChgInit /\ [][ChgNext]_vars

\* C11: for changed files with pairwise distinct paths, _generate_file_summaries
\* returns exactly one summary per changed file, in the order of changed_files,
\* for every completion order of the workers and every mix of low-priority files
\* (summarized without the completion client) and high or medium ones.
C11_ChangeSummariesInOrder ==
    cpc = "done" =>
        /\ Len(chg_out) = Len(changed_files)
        /\ \A i \in DOMAIN chg_out : chg_out[i].file = changed_files[i]

\* a low-priority file listed before two pooled files, the second of which was
\* yielded first
C11_Witness ==
    /\ cpc = "done" /\ chg_mode = "llm"
    /\ changed_files = <<ChangedPaths.api, ChangedPaths.README, ChangedPaths.Model>>
    /\ summaries = <<ChangeSummary(ChangedPaths.README, "low"), summarize(ChangedPaths.Model), summarize(ChangedPaths.api)>>
    /\ chg_out = <<summarize(ChangedPaths.api), ChangeSummary(ChangedPaths.README, "low"), summarize(ChangedPaths.Model)>>

\* ---- both per-file fan-outs: the file summarizer pool and the change summaries ----
SpecFanout == (PoolInit \/ ChgInit) /\ [][PoolNext \/ ChgNext]_vars

\* C13: in both per-file fan-outs, for every set of files whose completion call
\* fails, no failure leaves the fan-out and the runner returns exactly one result
\* per input file: the fallback summary for each file whose call failed, and for
\* every other file the summary it gets when nothing fails.
C13_FileFailureContained ==
    /\ cpc \in {"start", "pool", "done"}
    /\ fpc \in {"start", "pool", "done", "error"}
    /\ (cpc = "done" /\ chg_mode = "llm") =>
          /\ Len(chg_out) = Len(changed_files)
          /\ \A i \in DOMAIN chg_out :
                \E f \in {changed_files[i]} :
                   /\ chg_out[i].file = f
                   /\ chg_out[i].kind =
                         IF get_file_priority(f) = "low" THEN "low"
                         ELSE IF f \in chg_nodiff THEN "no_diff"
                         ELSE IF f \in chg_fails THEN "failed"
                         ELSE "llm"
    /\ (fpc = "done" /\ ~pool_mock) =>
          \E files \in {limit_files(parsed_files)} :
             /\ Len(file_summaries) = Len(files)
             /\ \A p \in Range(files) :
                   \E i \in DOMAIN file_summaries :
                      /\ file_summaries[i].file_path = p
                      /\ file_summaries[i].generation_method =
                            IF p \in llm_fails \cup llm_transient THEN "fallback" ELSE "llm"
                      /\ \A j \in DOMAIN file_summaries :
                            file_summaries[j].file_path = p => j = i

\* three pooled change summaries of which the first and the last failed
C13_Witness ==
    /\ cpc = "done" /\ chg_mode = "llm"
    /\ changed_files = <<ChangedPaths.api, ChangedPaths.util, ChangedPaths.Model>>
    /\ chg_fails = {ChangedPaths.api, ChangedPaths.Model} /\ chg_nodiff = {}
    /\ chg_out = <<ChangeSummary(ChangedPaths.api, "failed"), ChangeSummary(ChangedPaths.util, "llm"),
                   ChangeSummary(ChangedPaths.Model, "failed")>>

\* ======================================================================
\* Failure handling, side effects and the temporary directory (Spec)
\* ======================================================================

\* C14: no exception crosses a node boundary: whatever fails inside a node, the
\* node returns a state with status = error and a message, so invoke() never
\* raises out of a node.
C14_NodesNeverRaise ==
    ~(pc = "raised" /\ trace # <<>>)

\* C15: process_code_change returns a structured result for every outcome of the
\* workflow, an exception leaving a node or the construction of the workflow
\* included: success is a boolean, a failure carries an error message, and
\* success is True exactly when the final status is completed.
C15_StructuredResult ==
    (pc = "idle" /\ runs > 0) =>
        /\ result.success \in BOOLEAN
        /\ ~result.success => result.error \notin {"None", ""}
        /\ result.success <=> (state.status = "completed" /\ trace # <<>>)

\* the construction of the workflow failed: no node ran
C15_Witness ==
    /\ pc = "idle" /\ runs = 1 /\ ~use_mock /\ trace = <<>>
    /\ result = [NoResult EXCEPT !.error = "Document service failed"]

\* C16: a run whose changeset id is missing or names no changeset has status
\* error from the data loader on, makes no completion call, no repository fetch
\* and no write in any later stage, and ends with success = False.
C16_UnknownChangeSetHasNoEffect ==
    (trace # <<>> /\ state.code_change_id \notin DOMAIN CodeChanges) =>
        /\ state.status = "error"
        /\ effects = {} /\ writes = 0
        /\ pc # "raised"
        /\ (pc = "idle" => ~result.success)

\* without mock, the changeset 4 that does not exist, through every later stage
C16_Witness ==
    /\ pc = "idle" /\ runs = 1 /\ ~use_mock
    /\ state.code_change_id = 4
    /\ trace = FullPath
    /\ ~result.success /\ effects = {}

\* C17: within a run the documents table is written at most once and only by the
\* save stage, and status = completed means that exactly one write was
\* committed, that document_id is set, and that action is "updated" when a prior
\* document was loaded and "created" otherwise.
C17_OneWriteInSaver ==
    [][/\ documents' # documents =>
            /\ pc = "document_saver"
            /\ writes = 0 /\ writes' = 1
            /\ state'.status = "completed"
       /\ (pc # "idle" /\ documents' = documents) => writes' = writes
       /\ state'.status = "completed" =>
            /\ writes' = 1
            /\ state'.document_id \in DOMAIN documents'
            /\ state'.action = IF state'.existing_document # NoDoc THEN "updated" ELSE "created"
            /\ pc' \in {"END", "idle"}]_vars

\* a second run that updated the document the first run created
C17_Witness ==
    /\ pc = "END" /\ runs = 2 /\ state.status = "completed"
    /\ state.action = "updated" /\ writes = 1
    /\ Len(documents) = 1 /\ documents[1].code_change_id = 1 /\ documents[1].updated_at > 0

\* C19: a temporary repository snapshot directory made by a run is released by the
\* time the run terminates, on every exit path.
C19_TempDirReleased ==
    pc = "idle" => temp_dirs = 0

\* ======================================================================
\* _download_repository_zip_sync: nodes/repository_analyzer_node.py
\* ======================================================================

\* The metadata request, the candidate list and mkdtemp. repo_meta is what the
\* metadata request gave: a default_branch, "no_key" (200 without the key) or
\* "error" (another status, or an exception of the request).
repo_metadata_lookup ==
    /\ dpc = "start"
    /\ \E default_branch \in {IF repo_meta \in {"no_key", "error"} THEN "main" ELSE repo_meta},
          mkdtemp_raises \in BOOLEAN :
         LET RECURSIVE dedup(_, _)
             dedup(bs, acc) ==
                 IF bs = <<>> THEN acc
                 ELSE dedup(Tail(bs), IF Head(bs) \in Range(acc) THEN acc
                                      ELSE Append(acc, Head(bs)))
         IN /\ branches_to_try' = dedup(<<default_branch, "main", "master">>, <<>>)
            /\ temp_dir' = ~mkdtemp_raises
            /\ dpc' = IF mkdtemp_raises THEN "done" ELSE "loop"
    /\ UNCHANGED <<repo_meta, attempts, repo_path>>
    /\ UNCHANGED <<wfVars, docVars, retryVars, poolVars, chgVars, concVars>>
    /\ UNCHANGED <<patchVars, execVars, state_writes>>
    /\ UNCHANGED auxVars

\* One pass of the loop over branches_to_try: the archive request for the next
\* branch and what the loop does with what came back. status 0 is an exception of
\* client.get; body tells what a 200 carried: an archive with a top-level
\* directory ("tree"), an archive with none ("empty"), or bytes that cannot be
\* saved or extracted ("bad": open, write or ZipFile raise).
archive_get ==
    /\ dpc = "loop"
    /\ Len(attempts) < Len(branches_to_try)
    /\ \E status \in {0, 200, 302, 403, 404, 500}, body \in {"tree", "empty", "bad", "none"} :
        /\ (status = 200) <=> (body # "none")
        /\ attempts' = Append(attempts, [branch |-> branches_to_try[Len(attempts) + 1],
                                         status |-> status, body |-> body])
        /\ IF status = 200 /\ body = "tree"
           THEN repo_path' = "extracted/root" /\ dpc' = "done"
           ELSE IF status = 200 /\ body = "empty"
           THEN repo_path' = "None" /\ dpc' = "done"
           ELSE IF status = 403
           THEN repo_path' = "None" /\ dpc' = "done"
           ELSE \* 404, a redirect, another status, or an exception caught in the loop
                /\ repo_path' = "None"
                /\ dpc' = IF Len(attempts') = Len(branches_to_try) THEN "done" ELSE "loop"
    /\ UNCHANGED <<repo_meta, branches_to_try, temp_dir>>
    /\ UNCHANGED <<wfVars, docVars, retryVars, poolVars, chgVars, concVars>>
    /\ UNCHANGED <<patchVars, execVars, state_writes>>
    /\ UNCHANGED auxVars

FetchInit ==
    /\ repo_meta \in {"main", "master", "develop", "no_key", "error"}
    /\ dpc = "start"
    /\ branches_to_try = <<>> /\ attempts = <<>> /\ repo_path = "None" /\ temp_dir = FALSE
    /\ WorkflowAtRest /\ DocAtRest /\ RetryAtRest /\ PoolAtRest /\ ChgAtRest /\ ConcAtRest
    /\ PatchAtRest /\ ExecAtRest /\ state_writes = {} /\ AuxAtRest

FetchNext ==
    \/ repo_metadata_lookup
    \/ archive_get

SpecFetch == FetchInit /\ [][FetchNext]_vars

\* C20: the archive requests follow the de-duplicated candidate order [default
\* branch (main when the metadata lookup fails), main, master]; a candidate is
\* requested only after a 404, another status that is neither 200 nor 403, or a
\* transport error on the one before; a 200 stops with success; a 403 stops with
\* failure and no later candidate is requested; at most three requests are made.
C20_DownloadOrder ==
    LET default == IF repo_meta \in {"master", "develop"} THEN repo_meta ELSE "main"
        candidates == CASE default = "develop" -> <<"develop", "main", "master">>
                        [] default = "master"  -> <<"master", "main">>
                        [] OTHER               -> <<"main", "master">>
        n == Len(attempts)
    IN /\ n <= 3 /\ n <= Len(candidates)
       /\ \A i \in 1..n : attempts[i].branch = candidates[i]
       /\ \A i \in 1..(n - 1) : attempts[i].status \notin {200, 403}
       /\ (n > 0 /\ attempts[n].status = 200) => (dpc = "done" /\ repo_path # "None")
       /\ (n > 0 /\ attempts[n].status = 403) => (dpc = "done" /\ repo_path = "None")
       /\ (dpc = "done" /\ repo_path # "None") => (n > 0 /\ attempts[n].status = 200)

\* ======================================================================
\* Two runs of the workflow on one documents table: data_loader_node and
\* document_saver_node of each run, interleaved in every order
\* ======================================================================

MaxConc == 2

\* models.Document: commit_sha = Column(String(40), nullable=False, unique=True);
\* session.flush() of an insert raises IntegrityError when the value is in the table
commit_sha_not_checked(rows, sha) == TRUE
commit_sha_unique(rows, sha) == \A i \in DOMAIN rows : rows[i].commit_sha # sha

\* data_loader_node of run r: the changeset and the latest eligible document of
\* its repository, read from the table as it is at this moment
crun_load(r) ==
    /\ cruns[r].pc = "load"
    /\ LET repo == CodeChanges[cruns[r].code_change_id].repository
           eligible == {i \in DOMAIN store :
                           /\ store[i].repository_name = repo
                           /\ store[i].status \in {"generated", "edited", "reviewed"}}
           latest == {i \in eligible :
                         \A j \in eligible : store[j].updated_at <= store[i].updated_at}
       IN \E d \in (IF latest = {} THEN {0} ELSE latest) :
             cruns' = [cruns EXCEPT ![r].pc = "save", ![r].existing = d]
    /\ UNCHANGED store
    /\ UNCHANGED <<wfVars, docVars, retryVars, poolVars, chgVars, fetchVars>>
    /\ UNCHANGED <<patchVars, execVars, state_writes>>
    /\ UNCHANGED auxVars

\* the branch of run r up to document_saver_node (has_content: it produced a
\* document) and document_saver_node on the table as it is at this moment
crun_save(r) ==
    /\ cruns[r].pc = "save"
    /\ \E has_content \in BOOLEAN, commit_raises \in BOOLEAN :
         LET run == cruns[r]
             cc == CodeChanges[run.code_change_id]
             done(status, action, error) ==
                 [cruns EXCEPT ![r].pc = "done", ![r].status = status,
                               ![r].action = action, ![r].error = error]
             latest_upd == IF store = <<>> THEN 0
                           ELSE CHOOSE u \in {store[i].updated_at : i \in DOMAIN store} :
                                   \A i \in DOMAIN store : store[i].updated_at <= u
         IN IF ~has_content
            THEN /\ cruns' = done("error", "None", "Document content missing before save")
                 /\ UNCHANGED store
            ELSE IF run.existing # 0
            THEN IF commit_raises
                 THEN /\ cruns' = done("error", "updated", "commit failed")
                      /\ UNCHANGED store
                 ELSE /\ cruns' = done("completed", "updated", "None")
                      /\ store' = [store EXCEPT ![run.existing].content = "updated document",
                                                ![run.existing].updated_at = latest_upd + 1]
            ELSE IF ~commit_sha_unique(store, cc.commit_sha)
            THEN /\ cruns' = done("error", "None", "IntegrityError")
                 /\ UNCHANGED store
            ELSE IF commit_raises
            THEN /\ cruns' = done("error", "created", "commit failed")
                 /\ UNCHANGED store
            ELSE /\ cruns' = done("completed", "created", "None")
                 /\ store' = Append(store,
                        DocumentRow(ProjectTitle(cc.repository), "repository document",
                                    "repository summary", cc.commit_sha, cc.repository,
                                    run.code_change_id, 0))
    /\ UNCHANGED <<wfVars, docVars, retryVars, poolVars, chgVars, fetchVars>>
    /\ UNCHANGED <<patchVars, execVars, state_writes>>
    /\ UNCHANGED auxVars

\* MaxConc runs, for changeset 1 or 2 of owner/repo, started on a table that holds
\* no document or one document of the repository
ConcInit ==
    /\ cruns \in [1..MaxConc -> {[pc |-> "load", code_change_id |-> id, existing |-> 0,
                                  status |-> "loading", action |-> "None", error |-> "None"] :
                                    id \in {1, 2}}]
    /\ store \in {<<>>,
                  <<DocumentRow("Existing Title", "existing content", "existing summary",
                                "sha0", "owner/repo", 9, 0)>>}
    /\ WorkflowAtRest /\ DocAtRest /\ RetryAtRest /\ PoolAtRest /\ ChgAtRest /\ FetchAtRest
    /\ PatchAtRest /\ ExecAtRest /\ state_writes = {} /\ AuxAtRest

ConcNext ==
    \E r \in 1..MaxConc :
        \/ crun_load(r)
        \/ crun_save(r)

SpecConc == ConcInit /\ [][ConcNext]_vars

\* C18 as stated: when two concurrent runs for the same changeset have both loaded
\* before either saved and both observed no document, nothing prevents the second
\* create: both runs create a document, unless a run produced no content or its
\* commit failed.
C18_BothRunsCreate ==
    \A r1, r2 \in 1..MaxConc :
        (/\ r1 # r2
         /\ cruns[r1].code_change_id = cruns[r2].code_change_id
         /\ cruns[r1].pc = "done" /\ cruns[r2].pc = "done"
         /\ cruns[r1].existing = 0 /\ cruns[r2].existing = 0
         /\ cruns[r1].error \notin {"Document content missing before save", "commit failed"}
         /\ cruns[r2].error \notin {"Document content missing before save", "commit failed"})
        => /\ cruns[r1].status = "completed" /\ cruns[r1].action = "created"
           /\ cruns[r2].status = "completed" /\ cruns[r2].action = "created"

\* C18 amended: the documents table never holds two documents of one changeset.
\* Document.commit_sha is unique, so of the concurrent runs for one changeset that
\* all observed no document at most one creates a document; the insert of every
\* other one is rejected and that run ends with status error.
C18_OneDocumentPerChangeSet ==
    /\ \A i, j \in DOMAIN store :
          (store[i].code_change_id = store[j].code_change_id
             \/ store[i].commit_sha = store[j].commit_sha) => i = j
    /\ \A r1, r2 \in 1..MaxConc :
          (/\ r1 # r2
           /\ cruns[r1].code_change_id = cruns[r2].code_change_id
           /\ cruns[r1].existing = 0 /\ cruns[r2].existing = 0
           /\ cruns[r1].status = "completed") =>
              (cruns[r2].pc = "done" => cruns[r2].status = "error")

\* both runs loaded before either saved; the first created, the second was rejected
C18_Witness ==
    /\ cruns[1].code_change_id = 1 /\ cruns[2].code_change_id = 1
    /\ cruns[1].pc = "done" /\ cruns[2].pc = "done"
    /\ cruns[1].existing = 0 /\ cruns[2].existing = 0
    /\ cruns[1].status = "completed" /\ cruns[1].action = "created"
    /\ cruns[2].status = "error" /\ cruns[2].error = "IntegrityError"
    /\ Len(store) = 1 /\ store[1].code_change_id = 1

\* ======================================================================
\* Properties of the full-regeneration document
\* ======================================================================

\* C21: whenever the full-regeneration branch completes for a changeset with no
\* prior document, the persisted document content has second-level headings for
\* Overview, Architecture and Key Modules, in every generation mode and also when
\* part generations failed.
C21_FullRegenerationHeadings ==
    (/\ state.status = "completed" /\ ~state.should_update
     /\ "full_repository_document_generator" \in Range(trace)
     /\ state.document_id \in DOMAIN documents) =>
        {"Project Overview", "Architecture", "Key Modules"} \subseteq
            Range(SecondLevelHeadings(documents[state.document_id].content))

\* ======================================================================
\* Properties of the completion call sites
\* ======================================================================

\* C25: at every completion call site a transient failure is retried before a
\* fallback result is produced: a file whose first completion call fails with a
\* rate-limit error and whose next call would succeed gets the summary of the
\* completion, not the fallback summary.
C25_TransientFailureRetried ==
    \A i \in DOMAIN file_summaries :
        (~pool_mock /\ file_summaries[i].file_path \in llm_transient) =>
            file_summaries[i].generation_method = "llm"

\* ======================================================================
\* Observability of the stages
\* ======================================================================

\* C24: every node writes its own status label before returning: a node that
\* runs on a state without error and returns without error leaves a status
\* different from the one it found.
C24_EveryNodeWritesStatus ==
    [][(/\ trace' = Append(trace, pc)
        /\ pc' # "raised"
        /\ state.status # "error" /\ state'.status # "error") =>
            state'.status # state.status]_vars

\* C35: the error message of a failed run identifies the first failure: once a
\* node has set the error field of the state, no later node of the same run
\* overwrites it, so process() returns the message of the node that failed first.
C35_FirstErrorKept ==
    [][(pc # "idle" /\ state.error # "None") => state'.error = state.error]_vars

\* the rows of the documents table t generated for repository repo
DocumentsOf(t, repo) == {i \in DOMAIN t : t[i].repository_name = repo}

\* the repository a changeset belongs to, as data_loader_node names it
RepositoryOf(id) ==
    IF CodeChanges[id].repository = "None" THEN "unknown" ELSE CodeChanges[id].repository

\* C40: with runs one after the other, once a document has been created for a
\* repository, every later run that completes for a changeset of that repository
\* takes the incremental branch and updates that same document: same id, title
\* unchanged, and the repository still has exactly one document.
C40_LaterRunsUpdateTheOneDocument ==
    [][(/\ pc = "document_saver"
        /\ state'.status = "completed"
        /\ state.code_change_id \in DOMAIN CodeChanges
        /\ DocumentsOf(documents, RepositoryOf(state.code_change_id)) # {}) =>
            LET own == DocumentsOf(documents, RepositoryOf(state.code_change_id)) IN
            /\ "change_analyzer" \in Range(trace)
            /\ state'.action = "updated"
            /\ state'.document_id \in own
            /\ documents'[state'.document_id].title = documents[state'.document_id].title
            /\ DocumentsOf(documents', RepositoryOf(state.code_change_id)) = own
            /\ Cardinality(own) = 1]_vars

C40_Witness ==
    /\ pc = "END" /\ runs = 2 /\ state.status = "completed"
    /\ state.code_change_id = 2 /\ state.action = "updated" /\ state.document_id = 1
    /\ Len(documents) = 1 /\ documents[1].code_change_id = 1
    /\ documents[1].title = "owner/repo - Project Documentation"
    /\ documents[1].content = state.document_content

\* ======================================================================
\* Patches merged into a section body: _update_section_llm from the completion
\* text on, applied repeatedly to the body it returned (SpecPatch)
\* ======================================================================

\* patches merged in a row into a changelog body (one per run of the workflow)
MaxPatches == 2
\* blocks of a patch
MaxBlocks == 2

\* section bodies: empty, blank lines only, two lines, two paragraphs, and a body
\* with blanks at its start and blank lines at its end
OldBodies ==
    { <<>>, <<"\n","\n">>, <<"a","\n","b">>, <<"a","\n","\n","c","\n","d">>,
      <<" ","a","\n","b","\n","\n">> }

\* the blocks of a patch. The snippet of an [UPDATE: ...] block: text of a line,
\* text that spans two lines of one paragraph, text the body does not hold. The
\* paragraph of a block: empty, plain, holding the text of a snippet, holding a
\* bracket.
PatchBlocks ==
    LET snippets == { <<"a">>, <<"c","\n","d">>, <<"z","z">> }
        paragraphs == { <<>>, <<"p">>, <<"a","b">>, <<"q"," ","[","1","]">> }
    IN [kind : {"UPDATE"}, snippet : snippets, text : paragraphs] \cup
       [kind : {"ADD"}, snippet : {<<>>}, text : paragraphs]

BlockLists == UNION {[1..n -> PatchBlocks] : n \in 1..MaxBlocks}

\* a patch in the format the section prompt asks for: "[UPDATE: snippet]" and the
\* rewritten paragraph, "[ADD]" and the added paragraph
RECURSIVE RenderPatch(_)
RenderPatch(bl) ==
    IF bl = <<>> THEN <<>>
    ELSE (IF Head(bl).kind = "UPDATE"
          THEN UPDATE \o <<" ">> \o Head(bl).snippet \o <<"]","\n">>
          ELSE ADD \o <<"\n">>)
         \o Head(bl).text \o <<"\n">> \o RenderPatch(Tail(bl))

\* completions for the changelog section
ChangelogEntries == { <<>>, NO_CHANGE, <<"-"," ","e">>, <<"-"," ","e","\n","-"," ","f">> }

\* _update_section_llm with section_key = 'changelog'
merge_changelog_call ==
    /\ patch_key = T_changelog
    /\ patch_count < MaxPatches
    /\ \E completion \in ChangelogEntries :
         /\ patch_blocks' = <<>>
         /\ patch_text' = Strip(completion)
         /\ patch_new' = update_section_llm(patch_key, patch_new, completion)
    /\ patch_old' = patch_new
    /\ patch_count' = patch_count + 1
    /\ UNCHANGED patch_key
    /\ UNCHANGED <<wfVars, docVars, retryVars, poolVars, chgVars, fetchVars, concVars>>
    /\ UNCHANGED <<execVars, state_writes>>
    /\ UNCHANGED auxVars

\* _update_section_llm with any other section_key: the one patch a run merges
\* into the body of the section
merge_section_changes_call ==
    /\ patch_key # T_changelog
    /\ patch_count = 0
    /\ \E bl \in {<<>>} \cup BlockLists :
        \E completion \in (IF bl = <<>> THEN {<<>>, NO_CHANGE} ELSE {RenderPatch(bl)}) :
         /\ patch_blocks' = bl
         /\ patch_text' = Strip(completion)
         /\ patch_new' = update_section_llm(patch_key, patch_new, completion)
    /\ patch_old' = patch_new
    /\ patch_count' = patch_count + 1
    /\ UNCHANGED patch_key
    /\ UNCHANGED <<wfVars, docVars, retryVars, poolVars, chgVars, fetchVars, concVars>>
    /\ UNCHANGED <<execVars, state_writes>>
    /\ UNCHANGED auxVars

PatchInit ==
    /\ patch_key \in {T_changelog, T_overview}
    /\ patch_new \in OldBodies
    /\ patch_old = patch_new
    /\ patch_blocks = <<>> /\ patch_text = <<>> /\ patch_count = 0
    /\ WorkflowAtRest /\ DocAtRest /\ RetryAtRest /\ PoolAtRest /\ ChgAtRest /\ FetchAtRest
    /\ ConcAtRest /\ ExecAtRest /\ state_writes = {} /\ AuxAtRest

PatchNext ==
    \/ merge_changelog_call
    \/ merge_section_changes_call

SpecPatch == PatchInit /\ [][PatchNext]_vars

\* len(text.split('\n'))
LineCount(t) == Len(SplitOn(t, "\n"))

\* C22: for every section key and every old body, merging a patch that is empty
\* or exactly [NO_CHANGE] returns the old body unchanged.
C22_NoChangePatchIsIdentity ==
    (patch_count > 0 /\ patch_text \in {<<>>, NO_CHANGE}) => patch_new = patch_old

\* the no-change patch merged into a body that has blanks at both ends
C22_Witness ==
    /\ patch_count > 0 /\ patch_key = T_overview /\ patch_text = NO_CHANGE
    /\ patch_old = <<" ","a","\n","b","\n","\n">> /\ patch_new = patch_old

\* C23: for every prior changelog body and every sequence of non-empty patches
\* applied with _merge_changelog, the line count of the resulting body is at
\* least the line count of the body before each application.
C23_ChangelogLineCountMonotone ==
    (patch_key = T_changelog /\ patch_count > 0 /\ patch_text # <<>>) =>
        LineCount(patch_new) >= LineCount(patch_old)

\* the non-empty paragraphs of the [ADD] blocks of a patch, joined in patch order
\* the way the merge appends them
RECURSIVE AddedParagraphs(_)
AddedParagraphs(bl) ==
    IF bl = <<>> THEN <<>>
    ELSE LET rest == AddedParagraphs(Tail(bl))
             t == Strip(Head(bl).text)
         IN IF Head(bl).kind # "ADD" \/ t = <<>> THEN rest
            ELSE IF rest = <<>> THEN t
            ELSE t \o <<"\n","\n">> \o rest

\* C29: for a non-changelog section with a non-empty old body, every
\* [UPDATE: snippet] block of the patch that has non-empty replacement text
\* leaves that complete replacement text in the result (in place of the first
\* line or paragraph holding the snippet, or appended at the end).
C29_UpdateTextInResult ==
    (/\ patch_key # T_changelog /\ patch_count > 0
     /\ Strip(patch_old) # <<>> /\ patch_blocks # <<>>) =>
        \A i \in DOMAIN patch_blocks :
            (patch_blocks[i].kind = "UPDATE" /\ Strip(patch_blocks[i].text) # <<>>) =>
                Contains(patch_new, Strip(patch_blocks[i].text))

\* C30: for a non-changelog section with a non-empty old body, every [ADD] block
\* of the patch that has a non-empty paragraph is appended to the end of the
\* result, in patch order, after all [UPDATE] blocks have been applied, whatever
\* the position of the [ADD] blocks in the patch.
C30_AddsAppendedInOrder ==
    (/\ patch_key # T_changelog /\ patch_count > 0
     /\ Strip(patch_old) # <<>> /\ patch_blocks # <<>>) =>
        IsSuffix(AddedParagraphs(patch_blocks), patch_new)

\* a text without its blanks and newlines
Squeeze(t) == SelectSeq(t, LAMBDA c : ~IsSpace(c))

\* the paragraphs of all blocks of a patch, in patch order, blanks left out
RECURSIVE ReplacementText(_)
ReplacementText(bl) ==
    IF bl = <<>> THEN <<>> ELSE Squeeze(Head(bl).text) \o ReplacementText(Tail(bl))

\* C31: when the old body of a non-changelog section is empty, the merge result
\* holds no marker text (no [ADD], no [UPDATE: ...], no snippet, no bracket left
\* of a marker): apart from blanks between the paragraphs it is the
\* concatenation of the replacement paragraphs of the patch.
C31_EmptyBodyResultHasNoMarkers ==
    (/\ patch_key # T_changelog /\ patch_count > 0
     /\ Strip(patch_old) = <<>> /\ patch_blocks # <<>>) =>
        Squeeze(patch_new) = ReplacementText(patch_blocks)

\* ======================================================================
\* The worker pools of _handle_partial_update (target sections) and of
\* full_repository_document_generator_node (the three parts): SpecPoints runs
\* them next to the pools of file_summarizer_node and _generate_file_summaries
\* ======================================================================

MaxItems == 3

\* max_workers after the clamps: max(1, n) for the sections, max(1, min(n, 3))
\* for the parts
ExecWorkers ==
    LET n == IF ex_point = "parts" /\ ex_cap > 3 THEN 3 ELSE ex_cap
    IN IF n < 1 THEN 1 ELSE n

\* the condition under which the ThreadPoolExecutor is created
ExecUsesPool ==
    IF ex_point = "parts" THEN ExecWorkers > 1
    ELSE Len(ex_items) > 1 /\ ExecWorkers > 1 /\ ~ex_mock

\* max_workers given to the ThreadPoolExecutor
ExecPoolSize ==
    IF ex_point = "parts" THEN ExecWorkers ELSE Min(ExecWorkers, Len(ex_items))

\* the keys of state written once the items are done
ExecResultKeys ==
    IF ex_point = "parts"
    THEN {"document_title", "document_content", "document_summary", "status"}
    ELSE {"document_content", "updated_sections", "document_summary", "status"}

\* the stored document of the partial update, and the completion text per section
ExecDocument == <<"#"," ","T","\n","#","#"," ","O","v","e","r","v","i","e","w","\n","x","\n","#","#"," ","C","h","a","n","g","e","l","o","g","\n","-"," ","a","\n">>

ExecGenerated ==
    [k \in {T_overview, T_changelog} |->
        IF k = T_changelog THEN <<"-"," ","e">> ELSE ADD \o <<" ","n">>]

\* the section key of an item
ExecKey(item) ==
    CASE item = "overview" -> T_overview
      [] item = "changelog" -> T_changelog
      [] item = "architecture" -> T_architecture
      [] OTHER -> T_modules

\* updated_map after the results were taken in the given order: a key holds the
\* text of the last result taken for it
updated_map(parsed, order) ==
    [k \in {ExecKey(ex_items[order[j]]) : j \in DOMAIN order} |->
        process_section(parsed, k, DefaultMaxChars, ex_mock, ExecGenerated, CommitMsg)]

\* a merge that writes the sections in the order their results were taken
ExecContent_in_update_order(order) ==
    LET parsed == parse_markdown_sections(ExecDocument)
        upd == updated_map(parsed, order)
        lines == [j \in DOMAIN order |->
                    <<"#","#"," ">> \o parsed.headings[ExecKey(ex_items[order[j]])] \o <<"\n">>
                    \o Strip(upd[ExecKey(ex_items[order[j]])]) \o <<"\n">>]
    IN <<"#"," ">> \o DocTitle \o <<"\n","\n">> \o Strip(Join(lines, <<"\n">>))

\* new_content of _handle_partial_update: the title and _merge_sections(parsed, updated_map)
ExecContent(order) ==
    LET parsed == parse_markdown_sections(ExecDocument)
    IN <<"#"," ">> \o DocTitle \o <<"\n","\n">> \o merge_sections(parsed, updated_map(parsed, order))

\* up to the choice between the pool (every item submitted) and the loop
exec_enter ==
    /\ ex_pc = "start"
    /\ IF ExecUsesPool
       THEN /\ ex_pc' = "pool"
            /\ ex_pending' = [i \in 1..Len(ex_items) |-> i]
       ELSE /\ ex_pc' = "loop"
            /\ UNCHANGED ex_pending
    /\ UNCHANGED <<ex_point, ex_items, ex_cap, ex_mock, ex_fails, ex_running, ex_finished,
                   ex_results, ex_order, ex_content, state_writes>>
    /\ UNCHANGED <<wfVars, docVars, retryVars, poolVars, chgVars, fetchVars, concVars>>
    /\ UNCHANGED patchVars
    /\ UNCHANGED auxVars

\* the sequential path: the calling thread runs the worker function on the next
\* item. A part that raises gives ""; a section that raises leaves
\* _handle_partial_update, and document_generator_node sets the error.
exec_loop_step ==
    /\ ex_pc = "loop"
    /\ \E i \in {Cardinality(ex_results) + 1} :
         /\ i <= Len(ex_items)
         /\ IF ex_point = "sections" /\ i \in ex_fails
            THEN /\ ex_pc' = "raised"
                 /\ state_writes' = state_writes \cup WritesByCaller({"error", "status"}, 0)
                 /\ UNCHANGED <<ex_results, ex_order>>
            ELSE /\ ex_results' = ex_results \cup {i}
                 /\ ex_order' = Append(ex_order, i)
                 /\ UNCHANGED <<ex_pc, state_writes>>
    /\ UNCHANGED <<ex_point, ex_items, ex_cap, ex_mock, ex_fails, ex_pending, ex_running,
                   ex_finished, ex_content>>
    /\ UNCHANGED <<wfVars, docVars, retryVars, poolVars, chgVars, fetchVars, concVars>>
    /\ UNCHANGED patchVars
    /\ UNCHANGED auxVars

\* a pool thread starts on every submit while fewer than max_workers exist, and
\* each thread takes the oldest submitted work item when it is free
exec_worker_takes_unbounded ==
    /\ ex_pc \in {"pool", "draining"}
    /\ ex_pending # <<>>
    /\ ex_running' = ex_running \cup {Head(ex_pending)}
    /\ ex_pending' = Tail(ex_pending)
    /\ UNCHANGED <<ex_point, ex_items, ex_cap, ex_mock, ex_fails, ex_pc, ex_finished,
                   ex_results, ex_order, ex_content, state_writes>>
    /\ UNCHANGED <<wfVars, docVars, retryVars, poolVars, chgVars, fetchVars, concVars>>
    /\ UNCHANGED patchVars
    /\ UNCHANGED auxVars
exec_worker_takes ==
    /\ Cardinality(ex_running) < ExecPoolSize
    /\ exec_worker_takes_unbounded

\* _process_section(k) or llm.generate_*(...) ends in its pool thread: the value
\* or the exception is kept in the future
exec_worker_returns_writing ==
    /\ ex_pc \in {"pool", "draining"}
    /\ \E i \in ex_running :
         /\ ex_running' = ex_running \ {i}
         /\ ex_finished' = ex_finished \cup {i}
         /\ state_writes' = state_writes \cup
               {[key |-> "updated_sections", thread |-> "worker",
                 in_progress |-> Cardinality(ex_running)]}
    /\ UNCHANGED <<ex_point, ex_items, ex_cap, ex_mock, ex_fails, ex_pc, ex_pending, ex_results,
                   ex_order, ex_content>>
    /\ UNCHANGED <<wfVars, docVars, retryVars, poolVars, chgVars, fetchVars, concVars>>
    /\ UNCHANGED patchVars
    /\ UNCHANGED auxVars
exec_worker_returns ==
    /\ ex_pc \in {"pool", "draining"}
    /\ \E i \in ex_running :
         /\ ex_running' = ex_running \ {i}
         /\ ex_finished' = ex_finished \cup {i}
    /\ UNCHANGED <<ex_point, ex_items, ex_cap, ex_mock, ex_fails, ex_pc, ex_pending, ex_results,
                   ex_order, ex_content, state_writes>>
    /\ UNCHANGED <<wfVars, docVars, retryVars, poolVars, chgVars, fetchVars, concVars>>
    /\ UNCHANGED patchVars
    /\ UNCHANGED auxVars

\* as_completed yields a finished future to the calling thread. fut.result() of a
\* part is inside try/except (a failed part is ""); fut.result() of a section is
\* not: the exception leaves the loop, and the with block waits for the futures
\* that are left before the exception goes on.
exec_as_completed_yields ==
    /\ ex_pc = "pool"
    /\ \E i \in ex_finished :
         /\ ex_finished' = ex_finished \ {i}
         /\ IF ex_point = "sections" /\ i \in ex_fails
            THEN ex_pc' = "draining" /\ UNCHANGED <<ex_results, ex_order>>
            ELSE /\ ex_results' = ex_results \cup {i}
                 /\ ex_order' = Append(ex_order, i)
                 /\ UNCHANGED ex_pc
    /\ UNCHANGED <<ex_point, ex_items, ex_cap, ex_mock, ex_fails, ex_pending, ex_running,
                   ex_content, state_writes>>
    /\ UNCHANGED <<wfVars, docVars, retryVars, poolVars, chgVars, fetchVars, concVars>>
    /\ UNCHANGED patchVars
    /\ UNCHANGED auxVars

\* the loop, or the with block, has ended with a result for every item: the
\* calling thread builds the document and writes it into state
exec_return ==
    /\ ex_pc \in {"pool", "loop"}
    /\ Cardinality(ex_results) = Len(ex_items)
    /\ ex_pc' = "done"
    /\ state_writes' = state_writes \cup WritesByCaller(ExecResultKeys, Cardinality(ex_running))
    /\ ex_content' = IF ex_point = "sections" THEN ExecContent(ex_order) ELSE <<>>
    /\ UNCHANGED <<ex_point, ex_items, ex_cap, ex_mock, ex_fails, ex_pending, ex_running,
                   ex_finished, ex_results, ex_order>>
    /\ UNCHANGED <<wfVars, docVars, retryVars, poolVars, chgVars, fetchVars, concVars>>
    /\ UNCHANGED patchVars
    /\ UNCHANGED auxVars

\* the with block has waited for every future: the exception of the section
\* reaches the except clause of document_generator_node
exec_raise ==
    /\ ex_pc = "draining"
    /\ ex_pending = <<>> /\ ex_running = {}
    /\ ex_pc' = "raised"
    /\ state_writes' = state_writes \cup WritesByCaller({"error", "status"}, Cardinality(ex_running))
    /\ UNCHANGED <<ex_point, ex_items, ex_cap, ex_mock, ex_fails, ex_pending, ex_running,
                   ex_finished, ex_results, ex_order, ex_content>>
    /\ UNCHANGED <<wfVars, docVars, retryVars, poolVars, chgVars, fetchVars, concVars>>
    /\ UNCHANGED patchVars
    /\ UNCHANGED auxVars

\* target sections (the changelog last, a key can occur twice), or the three
\* tasks of the full document; a cap from 0 to one more than the items; no
\* worker raises, one does, or all do; the mock path makes no completion call
ExecInit ==
    /\ ex_point \in {"sections", "parts"}
    /\ ex_items \in IF ex_point = "parts"
                    THEN {<<"overview", "architecture", "modules">>}
                    ELSE {[i \in 1..n |-> IF i = n THEN "changelog" ELSE "overview"] :
                             n \in 1..MaxItems}
    /\ ex_cap \in 0..(MaxItems + 1)
    /\ ex_mock \in IF ex_point = "parts" THEN {FALSE} ELSE BOOLEAN
    /\ ex_fails \in IF ex_mock THEN {{}}
                    ELSE {{}, DOMAIN ex_items} \cup {{i} : i \in DOMAIN ex_items}
    /\ ex_pc = "start"
    /\ ex_pending = <<>> /\ ex_running = {} /\ ex_finished = {} /\ ex_results = {}
    /\ ex_order = <<>> /\ ex_content = <<>>
    /\ state_writes = {}
    /\ WorkflowAtRest /\ DocAtRest /\ RetryAtRest /\ PoolAtRest /\ ChgAtRest /\ FetchAtRest
    /\ ConcAtRest /\ PatchAtRest /\ AuxAtRest

ExecNext ==
    \/ exec_enter
    \/ exec_loop_step
    \/ exec_worker_takes
    \/ exec_worker_returns
    \/ exec_as_completed_yields
    \/ exec_return
    \/ exec_raise

SpecPoints == (PoolInit \/ ChgInit \/ ExecInit) /\ [][PoolNext \/ ChgNext \/ ExecNext]_vars

\* ======================================================================
\* Properties of the fan-out points (SpecChg, SpecPoints)
\* ======================================================================

\* the files _generate_file_summaries gives to _summarize
HighMedium == SelectSeq(changed_files, LAMBDA f : get_file_priority(f) # "low")

\* C26: at every fan-out point, when the configured worker cap is <= 1 or there
\* is at most one item, the items are executed sequentially in the calling
\* thread and no worker pool is created.
C26_SequentialWithoutPool ==
    /\ (cpc = "pool" \/ chg_running # {}) => (chg_workers > 1 /\ Len(HighMedium) > 1)
    /\ (fpc = "pool" \/ running # {}) =>
           (pool_workers > 1 /\ Len(limit_files(parsed_files)) > 1)
    /\ (ex_pc = "pool" \/ ex_running # {}) => (ex_cap > 1 /\ Len(ex_items) > 1)

C39_ContentIndependentOfCompletionOrder ==
    (ex_pc = "done" /\ ex_point = "sections" /\ ex_items # <<>>) =>
        ex_content = ExecContent([i \in DOMAIN ex_items |-> i])

\* a pool run in which the changelog was taken before the overview
C39_Witness ==
    /\ ex_pc = "done" /\ ex_point = "sections" /\ ~ex_mock
    /\ ex_items = <<"overview", "changelog">> /\ ex_order = <<2, 1>>
    /\ Contains(ex_content, <<"-"," ","a","\n","-"," ","e">>)

C28_OnlyCallerWritesState ==
    /\ \A w \in state_writes : w.thread = "caller" /\ w.in_progress = 0
    /\ (state_writes # {}) =>
          /\ running = {} /\ chg_running = {} /\ ex_running = {}
          /\ fpc # "pool" /\ cpc # "pool" /\ ex_pc \notin {"pool", "draining"}

\* two sections updated by a pool of two workers, the document then written
C28_Witness ==
    /\ ex_point = "sections" /\ ex_pc = "done" /\ ex_cap = 2 /\ ~ex_mock
    /\ Len(ex_items) = 2 /\ ex_results = {1, 2}
    /\ state_writes = WritesByCaller(ExecResultKeys, 0)

\* ======================================================================
\* file_parser_node: one record per code file (SpecParse)
\* ======================================================================

\* what reading and parsing a file does: it is parsed (by tree-sitter or by a
\* fallback parser), os.path.exists is false, open()/read() raises, or the
\* fallback parser raises
OnDisk == {"parsed", "not_found", "unreadable", "parse_raises"}

\* state["code_files"] as the repository analyzer leaves it: file i has path i
CodeFileLists ==
    UNION {{[i \in 1..n |-> [path |-> i, on_disk |-> k[i]]] : k \in [1..n -> OnDisk]} :
              n \in 0..MaxFiles}

\* _minimal_error_record
minimal_error_record(file_info, message) ==
    [file_path |-> file_info.path, parsing_error |-> message,
     functions |-> <<>>, classes |-> <<>>, imports |-> <<>>, loc |-> 0]

\* the record of parse_with_best_effort, file_path set from file_info
parse_with_best_effort(file_info) ==
    [file_path |-> file_info.path, parsing_error |-> "None",
     functions |-> <<"f">>, classes |-> <<>>, imports |-> <<"i">>, loc |-> 1]

\* generate_mock_parsing_result
generate_mock_parsing_result(file_info) ==
    [file_path |-> file_info.path, parsing_error |-> "None",
     functions |-> <<"main", "setup_app">>, classes |-> <<>>, imports |-> <<"i">>, loc |-> 0]

\* file_parser_node up to its loop: the empty list, the mock branch
file_parser_enter ==
    /\ ppc = "start"
    /\ IF code_files = <<>>
       THEN /\ parser_state' = [parser_state EXCEPT !.status = "error",
                                                   !.error = "No code files to parse"]
            /\ ppc' = "done"
            /\ UNCHANGED parsed_records
       ELSE IF parser_mock
       THEN /\ parsed_records' = [i \in DOMAIN code_files |->
                                     generate_mock_parsing_result(code_files[i])]
            /\ parser_state' = [parser_state EXCEPT !.parsed_files = parsed_records',
                                                   !.status = "summarizing_files"]
            /\ ppc' = "done"
       ELSE /\ ppc' = "loop"
            /\ UNCHANGED <<parsed_records, parser_state>>
    /\ UNCHANGED <<code_files, parser_mock>>
    /\ UNCHANGED <<wfVars, docVars, retryVars, poolVars, chgVars, fetchVars, concVars>>
    /\ UNCHANGED <<patchVars, execVars, state_writes, diffVars, svcVars>>

\* the record the loop body appends for one file
ParsedRecord(file_info) ==
    CASE file_info.on_disk = "parsed" -> parse_with_best_effort(file_info)
      [] file_info.on_disk = "not_found" -> minimal_error_record(file_info, "File not found")
      [] OTHER -> minimal_error_record(file_info, "str(e)")

\* the loop body without its try/except: an exception reaches the handler of the node
file_parser_iteration_uncaught ==
    /\ ppc = "loop"
    /\ Len(parsed_records) < Len(code_files)
    /\ LET file_info == code_files[Len(parsed_records) + 1]
       IN IF file_info.on_disk \in {"unreadable", "parse_raises"}
          THEN /\ parser_state' = [parser_state EXCEPT !.status = "error",
                                                      !.error = "File parser failed: str(e)"]
               /\ ppc' = "done"
               /\ UNCHANGED parsed_records
          ELSE /\ parsed_records' = Append(parsed_records, ParsedRecord(file_info))
               /\ UNCHANGED <<ppc, parser_state>>
    /\ UNCHANGED <<code_files, parser_mock>>
    /\ UNCHANGED <<wfVars, docVars, retryVars, poolVars, chgVars, fetchVars, concVars>>
    /\ UNCHANGED <<patchVars, execVars, state_writes, diffVars, svcVars>>

\* one iteration of `for file_info in code_files`
file_parser_iteration ==
    /\ ppc = "loop"
    /\ Len(parsed_records) < Len(code_files)
    /\ parsed_records' = Append(parsed_records,
                                ParsedRecord(code_files[Len(parsed_records) + 1]))
    /\ UNCHANGED <<code_files, parser_mock, ppc, parser_state>>
    /\ UNCHANGED <<wfVars, docVars, retryVars, poolVars, chgVars, fetchVars, concVars>>
    /\ UNCHANGED <<patchVars, execVars, state_writes, diffVars, svcVars>>

\* the loop is over: state["parsed_files"] and state["status"] are written
file_parser_return ==
    /\ ppc = "loop"
    /\ Len(parsed_records) = Len(code_files)
    /\ parser_state' = [parser_state EXCEPT !.parsed_files = parsed_records,
                                           !.status = "summarizing_files"]
    /\ ppc' = "done"
    /\ UNCHANGED <<code_files, parser_mock, parsed_records>>
    /\ UNCHANGED <<wfVars, docVars, retryVars, poolVars, chgVars, fetchVars, concVars>>
    /\ UNCHANGED <<patchVars, execVars, state_writes, diffVars, svcVars>>

ParseInit ==
    /\ code_files \in CodeFileLists
    /\ parser_mock \in BOOLEAN
    /\ ppc = "start"
    /\ parsed_records = <<>>
    /\ parser_state = [status |-> "analyzing_files", error |-> "None", parsed_files |-> <<>>]
    /\ WorkflowAtRest /\ DocAtRest /\ RetryAtRest /\ PoolAtRest /\ ChgAtRest /\ FetchAtRest
    /\ ConcAtRest /\ PatchAtRest /\ ExecAtRest /\ state_writes = {} /\ DiffAtRest /\ SvcAtRest

ParseNext ==
    \/ file_parser_enter
    \/ file_parser_iteration
    \/ file_parser_return

SpecParse == ParseInit /\ [][ParseNext]_vars

\* a record with empty functions, classes and imports and a parsing_error
Degraded(rec) ==
    /\ rec.functions = <<>> /\ rec.classes = <<>> /\ rec.imports = <<>>
    /\ rec.parsing_error # "None"

\* C32: file_parser_node produces one parsed record per input code file, in input
\* order; a file that is missing, unreadable or whose parsing raises yields a
\* degraded record and never makes the node fail; the node ends in error only
\* when the list of code files is empty.
C32_OneRecordPerFile ==
    /\ parser_state.status = "error" => (ppc = "done" /\ code_files = <<>>)
    /\ (ppc = "done" /\ code_files # <<>>) =>
          /\ Len(parser_state.parsed_files) = Len(code_files)
          /\ \A i \in DOMAIN code_files :
                /\ parser_state.parsed_files[i].file_path = code_files[i].path
                /\ (~parser_mock /\ code_files[i].on_disk # "parsed") =>
                       Degraded(parser_state.parsed_files[i])

\* a run over a missing, an unreadable and an unparsable file has ended
C32_Witness ==
    /\ ppc = "done" /\ ~parser_mock
    /\ {code_files[i].on_disk : i \in DOMAIN code_files} =
           {"not_found", "unreadable", "parse_raises"}
    /\ parser_state.status = "summarizing_files"
    /\ Len(parser_state.parsed_files) = 3

\* ======================================================================
\* diff_content from the loader to the per-file diff: data_loader_node,
\* _parse_diff_to_map, _find_diff_for_file (SpecDiff)
\* ======================================================================

\* files of a changeset
MaxDiffFiles == 2

DIFF_GIT == <<"d","i","f","f"," ","-","-","g","i","t"," ">>
A_SLASH == <<"a","/">>
B_SLASH == <<"b","/">>
NO_PATCH == <<"(","n","o"," ","p","a","t","c","h",")">>

\* FileChange.filename / the paths of a diff
DiffPaths == { <<"b","a","c","k","e","n","d","/","m","a","i","n",".","p","y">>,
               <<"b","a","c","k","e","n","d","/","d","o","m","a","i","n",".","p","y">>,
               <<"s","r","c","/","a","p","p",".","p","y">> }

\* FileChange.patch as the hosting service sends it: the hunks of the file
HunkText == <<"@","@"," ","-","1"," ","+","1"," ","@","@","\n","+","x">>

PathLists ==
    UNION {{f \in [1..n -> DiffPaths] : \A i, j \in 1..n : i # j => f[i] # f[j]} :
              n \in 0..MaxDiffFiles}

\* the FileChange rows of a changeset: every file with its patch, or without one
FileChangeLists ==
    UNION {{[i \in DOMAIN f |-> [filename |-> f[i],
                                 patch |-> IF i \in withPatch THEN HunkText ELSE <<>>]] :
               withPatch \in {DOMAIN f, {}}} : f \in PathLists}

\* a diff in the format _parse_diff_to_map splits: one "diff --git a/p b/p" block
\* per file (of a diff made without prefixes: "diff --git p p")
GitBlock(path, prefixed) ==
    DIFF_GIT \o (IF prefixed THEN A_SLASH \o path \o <<" ">> \o B_SLASH \o path
                 ELSE path \o <<" ">> \o path)
             \o <<"\n">> \o HunkText \o <<"\n">>

RECURSIVE GitDiff(_, _)
GitDiff(paths, prefixed) ==
    IF paths = <<>> THEN <<>>
    ELSE GitBlock(Head(paths), prefixed) \o GitDiff(Tail(paths), prefixed)

GitDiffs == {GitDiff(f, pre) : f \in PathLists, pre \in BOOLEAN}

\* data_loader_node: the part of one file in diff_content
diff_part(fc) ==
    <<"\n","#","#","#"," ">> \o fc.filename \o <<" ","(","m","o","d","i","f","i","e","d",")","\n","+","1"," ","-","0","\n","\n">>
    \o (IF fc.patch # <<>> THEN fc.patch ELSE NO_PATCH) \o <<"\n">>

\* re.search(r'a/(.*?)\s+b/', header_line): the start positions that match
HeaderGroupEnds(h, i) ==
    {g \in (i + 2)..Len(h) : IsSpace(h[g]) /\ StartsAt(h, B_SLASH, SpaceRunEnd(h, g))}

\* match.group(1).strip() of that search (<<"\n">>: no match)
header_path(h) ==
    LET hits == {i \in 1..Len(h) : StartsAt(h, A_SLASH, i) /\ HeaderGroupEnds(h, i) # {}}
    IN IF hits = {} THEN <<"\n">>
       ELSE LET i == CHOOSE x \in hits : \A y \in hits : x <= y
                ends == HeaderGroupEnds(h, i)
                g == CHOOSE x \in ends : \A y \in ends : x <= y
            IN Strip(SubSeq(h, i + 2, g - 1))

\* header_line.split(): the words of the line
RECURSIVE Words(_)
Words(t) ==
    LET u == LStrip(t)
    IN IF u = <<>> THEN <<>>
       ELSE LET stops == {i \in 1..Len(u) : IsSpace(u[i])}
                n == IF stops = {} THEN Len(u) + 1
                     ELSE CHOOSE x \in stops : \A y \in stops : x <= y
            IN <<SubSeq(u, 1, n - 1)>> \o Words(SubSeq(u, n, Len(u)))

\* diff_map[key] = block: the position of a key is that of its first insertion
DictSet(m, key, block) ==
    IF \E i \in DOMAIN m : m[i].key = key
    THEN [i \in DOMAIN m |-> IF m[i].key = key THEN [key |-> key, block |-> block] ELSE m[i]]
    ELSE Append(m, [key |-> key, block |-> block])

\* the body of `for chunk in chunks`
parse_chunk(m, chunk) ==
    LET header_line == SplitOn(chunk, "\n")[1]
        file_path == header_path(header_line)
        parts == Words(header_line)
        f == IF Len(parts) >= 2 /\ IsPrefix(A_SLASH, parts[1])
             THEN SubSeq(parts[1], 3, Len(parts[1]))
             ELSE parts[1]
    IN IF Strip(chunk) = <<>> THEN m
       ELSE IF file_path # <<"\n">> THEN DictSet(m, file_path, DIFF_GIT \o chunk)
       ELSE IF Len(parts) >= 2 THEN DictSet(m, f, DIFF_GIT \o chunk)
       ELSE m

RECURSIVE parse_chunks(_, _)
parse_chunks(m, chunks) ==
    IF chunks = <<>> THEN m ELSE parse_chunks(parse_chunk(m, Head(chunks)), Tail(chunks))

\* _parse_diff_to_map
parse_diff_to_map(text) ==
    IF text = <<>> THEN <<>> ELSE parse_chunks(<<>>, SplitText(text, DIFF_GIT))

\* filename.strip().replace('\\', '/')
norm_name(filename) ==
    [i \in DOMAIN Strip(filename) |->
        IF Strip(filename)[i] = "\\" THEN "/" ELSE Strip(filename)[i]]

\* first entry of the dict whose key has the given property (0: none)
FirstKey(m, Holds(_)) ==
    LET hits == {i \in DOMAIN m : Holds(m[i].key)}
    IN IF hits = {} THEN 0 ELSE CHOOSE i \in hits : \A j \in hits : i <= j

\* _find_diff_for_file
find_diff_for_file(filename, m) ==
    LET exact == FirstKey(m, LAMBDA key : key = filename)
        prefixed == FirstKey(m, LAMBDA key : key = A_SLASH \o filename)
        suffix == FirstKey(m, LAMBDA key : \/ IsSuffix(norm_name(filename), key)
                                           \/ IsSuffix(key, norm_name(filename)))
    IN IF exact # 0 THEN m[exact].block
       ELSE IF prefixed # 0 THEN m[prefixed].block
       ELSE IF suffix # 0 THEN m[suffix].block
       ELSE <<>>

\* the filenames asked for: those of the changeset, a file name alone, a path
\* written with backslashes, a name no key ends with, the empty name
LookupNames ==
    DiffPaths \cup { <<"m","a","i","n",".","p","y">>, <<"b","a","c","k","e","n","d","\\","m","a","i","n",".","p","y">>, <<"n","o","t","f","o","u","n","d",".","p","y">>, <<>> }

\* data_loader_node: diff_content = "\n".join(diff_parts)
data_loader_joins_diff ==
    /\ mpc = "start"
    /\ diff_content' = Join([i \in DOMAIN file_changes |-> diff_part(file_changes[i])], <<"\n">>)
    /\ mpc' = "loaded"
    /\ UNCHANGED <<file_changes, diff_map, lookup_file, file_diff>>
    /\ UNCHANGED <<wfVars, docVars, retryVars, poolVars, chgVars, fetchVars, concVars>>
    /\ UNCHANGED <<patchVars, execVars, state_writes, parseVars, svcVars>>

\* _generate_file_summaries: diff_map = _parse_diff_to_map(diff_content)
parse_diff_to_map_call ==
    /\ mpc = "loaded"
    /\ diff_map' = parse_diff_to_map(diff_content)
    /\ mpc' = "parsed"
    /\ UNCHANGED <<file_changes, diff_content, lookup_file, file_diff>>
    /\ UNCHANGED <<wfVars, docVars, retryVars, poolVars, chgVars, fetchVars, concVars>>
    /\ UNCHANGED <<patchVars, execVars, state_writes, parseVars, svcVars>>

\* _summarize: file_diff = _find_diff_for_file(file, diff_map)
find_diff_for_file_call ==
    /\ mpc \in {"parsed", "found"}
    /\ \E filename \in LookupNames :
         /\ lookup_file' = filename
         /\ file_diff' = find_diff_for_file(filename, diff_map)
    /\ mpc' = "found"
    /\ UNCHANGED <<file_changes, diff_content, diff_map>>
    /\ UNCHANGED <<wfVars, docVars, retryVars, poolVars, chgVars, fetchVars, concVars>>
    /\ UNCHANGED <<patchVars, execVars, state_writes, parseVars, svcVars>>

\* a changeset the loader is about to read, or a diff text handed to the parser
DiffInit ==
    /\ \/ /\ file_changes \in FileChangeLists
          /\ diff_content = <<>>
          /\ mpc = "start"
       \/ /\ file_changes = <<>>
          /\ diff_content \in GitDiffs
          /\ mpc = "loaded"
    /\ diff_map = <<>> /\ lookup_file = <<>> /\ file_diff = <<>>
    /\ WorkflowAtRest /\ DocAtRest /\ RetryAtRest /\ PoolAtRest /\ ChgAtRest /\ FetchAtRest
    /\ ConcAtRest /\ PatchAtRest /\ ExecAtRest /\ state_writes = {} /\ ParseAtRest /\ SvcAtRest

DiffNext ==
    \/ data_loader_joins_diff
    \/ parse_diff_to_map_call
    \/ find_diff_for_file_call

SpecDiff == DiffInit /\ [][DiffNext]_vars

\* C36: for a changeset whose file deltas carry patch text, the diff map derived
\* from the diff_content the loader assembled holds a non-empty block for each
\* such file: the per-file lookup returns that file's diff, not the empty text
\* that leads to the "no diff available" fallback.
C36_LoadedDiffReachesFile ==
    (/\ mpc = "found"
     /\ \E i \in DOMAIN file_changes :
           file_changes[i].filename = lookup_file /\ file_changes[i].patch # <<>>) =>
        file_diff # <<>>

\* a is b, or the trailing path components of b
ComponentSuffix(a, b) ==
    /\ a # <<>> /\ IsSuffix(a, b)
    /\ Len(a) = Len(b) \/ b[Len(b) - Len(a)] = "/"

\* the three ways a key matches a query, suffixes taken at a path separator
KeyMatches(filename, key) ==
    \/ key = filename
    \/ key = A_SLASH \o filename
    \/ ComponentSuffix(norm_name(filename), key)
    \/ ComponentSuffix(key, norm_name(filename))

\* C37: _find_diff_for_file returns a block through suffix matching only when one
\* path is a suffix of the other at a path-separator boundary: the query main.py
\* returns the block keyed backend/main.py, never the block keyed
\* backend/domain.py; an empty query returns empty; a query that matches no key
\* in any of the three ways returns empty.
C37_SuffixAtComponentBoundary ==
    mpc = "found" =>
        /\ lookup_file = <<>> => file_diff = <<>>
        /\ file_diff # <<>> =>
              \E i \in DOMAIN diff_map :
                  diff_map[i].block = file_diff /\ KeyMatches(lookup_file, diff_map[i].key)
        /\ (\E i \in DOMAIN diff_map : KeyMatches(lookup_file, diff_map[i].key)) =>
              file_diff # <<>>

\* ======================================================================
\* get_document_service: the module-level instance (SpecSvc)
\* ======================================================================

\* calls of get_document_service in a process
MaxCalls == 3

\* os.getenv("OPENAI_API_KEY")
EnvKey == "env key"

\* the argument openai_api_key: not given, or a key
ApiKeys == {"None", "key 1", "key 2"}

\* DocumentService.__init__
DocumentService(openai_api_key, mock) ==
    [openai_api_key |-> IF openai_api_key # "None" THEN openai_api_key ELSE EnvKey,
     use_mock |-> mock]

\* get_document_service
get_document_service ==
    /\ Len(service_calls) < MaxCalls
    /\ \E mock \in BOOLEAN, openai_api_key \in ApiKeys :
         /\ service_instance' =
                IF service_instance = <<>> \/ openai_api_key # "None" \/ mock
                THEN <<DocumentService(openai_api_key, mock)>>
                ELSE service_instance
         /\ service_calls' = Append(service_calls,
                                    [use_mock |-> mock, openai_api_key |-> openai_api_key,
                                     returned |-> service_instance'[1]])
    /\ UNCHANGED <<wfVars, docVars, retryVars, poolVars, chgVars, fetchVars, concVars>>
    /\ UNCHANGED <<patchVars, execVars, state_writes, parseVars, diffVars>>

\* the module as imported: _service_instance = None
SvcInit ==
    /\ service_instance = <<>> /\ service_calls = <<>>
    /\ WorkflowAtRest /\ DocAtRest /\ RetryAtRest /\ PoolAtRest /\ ChgAtRest /\ FetchAtRest
    /\ ConcAtRest /\ PatchAtRest /\ ExecAtRest /\ state_writes = {}
    /\ ParseAtRest /\ DiffAtRest

SvcNext == get_document_service

SpecSvc == SvcInit /\ [][SvcNext]_vars

\* C38: after any sequence of calls to get_document_service, the service returned
\* by a call with use_mock = m has use_mock equal to m: a call asking for the real
\* service never returns an instance created earlier in mock mode.
C38_ReturnedServiceHasRequestedMode ==
    \A i \in DOMAIN service_calls :
        service_calls[i].returned.use_mock = service_calls[i].use_mock

====
